---- MODULE Spec2Model ----
(***************************************************************************)
(* O.WindowedRemoteQuery (datastore/query/WindowedRemoteQuery.js): the     *)
(* windowed remote list, its update algebra, its window status table and   *)
(* the reconciliation of server deltas with preemptive client updates.     *)
(*                                                                         *)
(* JavaScript arrays are modelled as sequences; the JavaScript index i is  *)
(* position i + 1 of the sequence.  A hole of a sparse array (and the      *)
(* value undefined) is Hole; store keys are positive numbers.              *)
(***************************************************************************)
EXTENDS Integers, Sequences, FiniteSets, TLC

\* ------------------------------------------------------------------------
\* Bounds of the model
\* ------------------------------------------------------------------------

\* Number of record ids the server draws from.
NumIds == 4
\* Number of server states (state tokens 1..MaxServerStates).
MaxServerStates == 3
\* Number of clientDidGenerateUpdate calls in a behaviour.
MaxClientUpdates == 2
\* Number of refresh calls by the application in a behaviour.
MaxRefreshes == 1
\* Number of fetchDataForObjectAt calls in a behaviour.
MaxReads == 1
\* Number of fetchDataForObjectAt and getStoreKeysForObjectsInRange calls
\* in a behaviour of the query that optimises its fetching.
MaxLookups == 2
\* Number of responses that may be in flight at once.
MaxInFlight == 2
\* Number of indexes an update of the algebra removes, and number it adds.
MaxChanged == 2
\* Number of updates applied in a chain to a list.
MaxChain == 2
\* Number of records an update of the client removes.
MaxRemoved == 2

\* ------------------------------------------------------------------------
\* JavaScript values and array primitives
\* ------------------------------------------------------------------------

\* A gap of the sparse list: list[i] is undefined (falsy).
Hole == 0
\* length === null: the length of the list is not known.
NULL == -1
\* Array#indexOf / the hash map of mapIndexes: the value is not there.
NotFound == -1

Max(a, b) == IF a > b THEN a ELSE b
Min(a, b) == IF a < b THEN a ELSE b

\* a[i]; undefined (Hole) outside the array.
Get(a, i) == IF i >= 0 /\ i < Len(a) THEN a[i + 1] ELSE Hole

\* a[i] for an array of indexes; undefined is no number, written -2.
GetIndex(a, i) == IF i >= 0 /\ i < Len(a) THEN a[i + 1] ELSE -2

\* a.indexOf( v ): the first index holding v, or -1.
IndexOf(a, v) ==
    IF \E i \in 1..Len(a) : a[i] = v
    THEN (CHOOSE i \in 1..Len(a) : a[i] = v /\ \A j \in 1..(i - 1) : a[j] # v) - 1
    ELSE NotFound

\* A lastIndexOf that gives the last index of the array for any value the
\* array holds.
lastIndexOfAsEnd(a, v) ==
    IF \E i \in 1..Len(a) : a[i] = v THEN Len(a) - 1 ELSE NotFound

\* a.lastIndexOf( v ): the last index holding v, or -1.
LastIndexOf(a, v) ==
    IF \E i \in 1..Len(a) : a[i] = v
    THEN (CHOOSE i \in 1..Len(a) : a[i] = v /\ \A j \in (i + 1)..Len(a) : a[j] # v) - 1
    ELSE NotFound

\* a.splice( i, 1 ): a negative start counts from the end, a start past the
\* end removes nothing.
SpliceOut(a, i) ==
    LET start == IF i < 0 THEN Max(Len(a) + i, 0) ELSE i
    IN  IF start >= Len(a) THEN a
        ELSE SubSeq(a, 1, start) \o SubSeq(a, start + 2, Len(a))

\* a.splice( i, 0, v ) for 0 <= i: the start is clamped to the length.
SpliceIn(a, i, v) ==
    LET start == IF i < 0 THEN Max(Len(a) + i, 0) ELSE Min(i, Len(a))
    IN  SubSeq(a, 1, start) \o <<v>> \o SubSeq(a, start + 1, Len(a))

\* a[i] = v, which grows the array with holes (fill) when i is past its end.
SetAt(a, i, v, fill) ==
    [ (IF i + 1 > Len(a)
       THEN a \o [j \in 1..(i + 1 - Len(a)) |-> fill]
       ELSE a) EXCEPT ![i + 1] = v ]

\* a.length = n.
SetLength(a, n, fill) ==
    IF n = 0 THEN <<>> ELSE SubSeq(a \o [j \in 1..n |-> fill], 1, n)

\* a.slice( i ).
SliceFrom(a, i) == SubSeq(a, i + 1, Len(a))

\* The index of the first gap of the list: i = 0; while ( list[i] ) i += 1.
FirstGap(a) ==
    IF \E i \in 1..Len(a) : a[i] = Hole
    THEN (CHOOSE i \in 1..Len(a) : a[i] = Hole /\ \A j \in 1..(i - 1) : a[j] # Hole) - 1
    ELSE Len(a)

\* Array#binarySearch( value ): the lowest index at which value could be
\* inserted in the (sorted) array; the bisection is run as written, so that
\* an unsorted array gives what the bisection gives.
RECURSIVE bisect(_, _, _, _)
bisect(a, value, lower, upper) ==
    IF lower < upper
    THEN LET middle == (lower + upper) \div 2
         IN  IF a[middle + 1] < value
             THEN bisect(a, value, middle + 1, upper)
             ELSE bisect(a, value, lower, middle)
    ELSE lower

binarySearch(a, value) == bisect(a, value, 0, Len(a))

\* ------------------------------------------------------------------------
\* The update algebra
\* ------------------------------------------------------------------------

\* zipped.sort( a[0] - b[0] ): stable insertion of one pair.
RECURSIVE insertPair(_, _)
insertPair(sorted, pair) ==
    IF sorted = <<>> THEN <<pair>>
    ELSE IF sorted[Len(sorted)][1] <= pair[1] THEN Append(sorted, pair)
    ELSE Append(insertPair(SubSeq(sorted, 1, Len(sorted) - 1), pair),
                sorted[Len(sorted)])

RECURSIVE sortPairs(_, _)
sortPairs(zipped, n) ==
    IF n = 0 THEN <<>> ELSE insertPair(sortPairs(zipped, n - 1), zipped[n])

\* sortLinkedArrays( a1, a2 ): both arrays, sorted by a1 (a stable sort).
\* The result is the pair << a1, a2 >>.
sortLinkedArrays(a1, a2) ==
    LET unzip(sorted) == << [i \in 1..Len(sorted) |-> sorted[i][1]],
                            [i \in 1..Len(sorted) |-> sorted[i][2]] >>
    IN  unzip(sortPairs([i \in 1..Len(a1) |-> <<a1[i], Get(a2, i - 1)>>], Len(a1)))

\* ~~Math.log( n ) for the lengths the model reaches.
FloorLog(n) ==
    IF n < 3 THEN 0 ELSE IF n < 8 THEN 1 ELSE IF n < 21 THEN 2 ELSE 3

\* mapIndexes, the linear scan that looks only at the entries before the
\* first gap of the list.
mapIndexesScanToFirstGap(list, storeKeys) ==
    [i \in 1..Len(storeKeys) |->
        IF \E j \in 1..Len(list) :
                list[j] = storeKeys[i] /\ \A k \in 1..j : list[k] # Hole
        THEN IndexOf(list, storeKeys[i])
        ELSE NotFound]

\* mapIndexes, the linear scan: list.indexOf of each key.  indexOf does not
\* visit the gaps of a sparse array.
mapIndexesScan(list, storeKeys) ==
    [i \in 1..Len(storeKeys) |->
        IF storeKeys[i] # Hole THEN IndexOf(list, storeKeys[i]) ELSE NotFound]

\* mapIndexes, the hash map: the last index that holds the key.
mapIndexesHash(list, storeKeys) ==
    [i \in 1..Len(storeKeys) |->
        IF storeKeys[i] # Hole THEN LastIndexOf(list, storeKeys[i]) ELSE NotFound]

mapIndexes(list, storeKeys) ==
    IF Len(storeKeys) < FloorLog(Len(list)) + 1
    THEN mapIndexesScan(list, storeKeys)
    ELSE mapIndexesHash(list, storeKeys)

\* mergeSortedLinkedArrays( a1, a2, b1, b2 ): a1 and a2 are the two sorted
\* index arrays, b1 and b2 their linked store keys; on a tie the element of
\* a2 goes first.  The result is the pair << indexes, store keys >>.
RECURSIVE mergeFrom(_, _, _, _, _, _)
mergeFrom(a1, a2, b1, b2, i, j) ==
    IF ~(i < Len(a1) \/ j < Len(a2)) THEN << <<>>, <<>> >>
    ELSE IF j >= Len(a2) \/ (i < Len(a1) /\ a1[i + 1] < a2[j + 1])
    THEN LET push(rest) == << <<a1[i + 1]>> \o rest[1], <<Get(b1, i)>> \o rest[2] >>
         IN  push(mergeFrom(a1, a2, b1, b2, i + 1, j))
    ELSE LET push(rest) == << <<a2[j + 1]>> \o rest[1], <<Get(b2, j)>> \o rest[2] >>
         IN  push(mergeFrom(a1, a2, b1, b2, i, j + 1))

mergeSortedLinkedArrays(a1, a2, b1, b2) == mergeFrom(a1, a2, b1, b2, 0, 0)

\* The inner loop of adjustIndexes gone wrong: index > removedBefore[j], so
\* that an index equal to one removed before is not moved past it.
RECURSIVE shiftPastStrict(_, _, _)
shiftPastStrict(index, removedBefore, j) ==
    IF j < Len(removedBefore) /\ index > removedBefore[j + 1]
    THEN shiftPastStrict(index + 1, removedBefore, j + 1)
    ELSE index

\* The inner loop of adjustIndexes: index += 1 for each index removed in the
\* first update that is before or equal to it.
RECURSIVE shiftPast(_, _, _)
shiftPast(index, removedBefore, j) ==
    IF j < Len(removedBefore) /\ index >= removedBefore[j + 1]
    THEN shiftPast(index + 1, removedBefore, j + 1)
    ELSE index

\* The outer loop of adjustIndexes gone wrong: an index removed by the
\* second update at the position the first update added at is kept instead
\* of being cancelled.
RECURSIVE adjustFromNoCancel(_, _, _, _, _)
adjustFromNoCancel(removed, added, removedBefore, storeKeys, i) ==
    IF i >= Len(removed) THEN << <<>>, <<>> >>
    ELSE LET index == removed[i + 1]
             push(position, rest) ==
                 << <<shiftPast(index - position, removedBefore, 0)>> \o rest[1],
                    <<Get(storeKeys, i)>> \o rest[2] >>
         IN  push(binarySearch(added, index),
                  adjustFromNoCancel(removed, added, removedBefore, storeKeys, i + 1))

\* The outer loop of adjustIndexes, from element i on:
\* << resultIndexes, resultStoreKeys >>.
RECURSIVE adjustFrom(_, _, _, _, _)
adjustFrom(removed, added, removedBefore, storeKeys, i) ==
    IF i >= Len(removed) THEN << <<>>, <<>> >>
    ELSE LET index == removed[i + 1]
             push(position, rest) ==
                 IF index = GetIndex(added, position) THEN rest
                 ELSE << <<shiftPast(index - position, removedBefore, 0)>> \o rest[1],
                         <<Get(storeKeys, i)>> \o rest[2] >>
         IN  push(binarySearch(added, index),
                  adjustFrom(removed, added, removedBefore, storeKeys, i + 1))

adjustIndexes(removed, added, removedBefore, storeKeys, removedBeforeStoreKeys) ==
    LET merge(result) ==
            mergeSortedLinkedArrays(
                removedBefore, result[1], removedBeforeStoreKeys, result[2])
    IN  merge(adjustFrom(removed, added, removedBefore, storeKeys, 0))

composeUpdates(u1, u2) ==
    LET composed(removed, added) ==
            [ removedIndexes     |-> removed[1],
              removedStoreKeys   |-> removed[2],
              addedIndexes       |-> added[1],
              addedStoreKeys     |-> added[2],
              truncateAtFirstGap |-> u1.truncateAtFirstGap \/ u2.truncateAtFirstGap,
              total              |-> u2.total,
              upto               |-> u2.upto ]
    IN  composed(
            adjustIndexes(
                u2.removedIndexes, u1.addedIndexes, u1.removedIndexes,
                u2.removedStoreKeys, u1.removedStoreKeys),
            adjustIndexes(
                u1.addedIndexes, u2.removedIndexes, u2.addedIndexes,
                u1.addedStoreKeys, u2.addedStoreKeys))

\* invertUpdate gone wrong: the arrays are swapped and the total is left as
\* it was.
invertUpdateKeepsTotal(u) ==
    [ u EXCEPT !.removedIndexes   = u.addedIndexes,
               !.addedIndexes     = u.removedIndexes,
               !.removedStoreKeys = u.addedStoreKeys,
               !.addedStoreKeys   = u.removedStoreKeys ]

\* invertUpdate( u ): the arrays swapped; the total is that of u plus the
\* number u removed (addedStoreKeys after the swap) minus the number it added.
invertUpdate(u) ==
    [ u EXCEPT !.removedIndexes   = u.addedIndexes,
               !.addedIndexes     = u.removedIndexes,
               !.removedStoreKeys = u.addedStoreKeys,
               !.addedStoreKeys   = u.removedStoreKeys,
               !.total = u.total + Len(u.removedStoreKeys) - Len(u.addedStoreKeys) ]

\* preemptives.reduce( composeUpdates ) of a non-empty queue.
RECURSIVE reduceCompose(_, _)
reduceCompose(updates, n) ==
    IF n = 1 THEN updates[1]
    ELSE composeUpdates(reduceCompose(updates, n - 1), updates[n])

\* ------------------------------------------------------------------------
\* The query object
\* ------------------------------------------------------------------------

\* The flags of a window's status (O.WindowedRemoteQuery-WindowState); a
\* status is the set of its flags, WINDOW_EMPTY the empty set.
WINDOW_EMPTY == {}
WindowFlags ==
    { "REQUESTED", "LOADING", "READY",
      "RECORDS_REQUESTED", "RECORDS_LOADING", "RECORDS_READY" }
\* status < WINDOW_RECORDS_REQUESTED: none of the three records flags is set.
BelowRecordsRequested(status) ==
    status \cap {"RECORDS_REQUESTED", "RECORDS_LOADING", "RECORDS_READY"} = {}

\* The flags of the query's status (record/Status.js), as a set.
StatusFlags == { "EMPTY", "READY", "LOADING", "DIRTY", "OBSOLETE" }

\* null and undefined in arithmetic and comparisons are 0.
Num(x) == IF x = NULL THEN 0 ELSE x

\* store.getStoreKey( Type, id ): the store key of a record id.  Ids are
\* 1..NumIds; the store hands out the keys StoreKeyBase + id.
StoreKeyBase == 10
getStoreKey(id) == IF id = Hole THEN Hole ELSE StoreKeyBase + id

\* The function the _toStoreKey property returns (its cache only saves
\* calls of store.getStoreKey).
toStoreKey(id) == getStoreKey(id)

\* store.getStatus( storeKey ) & (EMPTY|OBSOLETE): the record of the key is
\* not in memory (q.loaded holds the keys of the records that are).
recordIsMissing(q, storeKey) == storeKey \notin q.loaded

\* source.fetchQuery( query ): the source notes that the query is to be
\* fetched; it calls sourceWillFetchQuery when it sends the request.
fetchQuery(q) == [q EXCEPT !.fetchRequested = TRUE]

\* A comparison that takes any two values to be equal.
isEqualAlways(a, b) == TRUE

\* isEqual( a, b ) of core/Core.js, on the values of sort and filter.
isEqual(a, b) == a = b

\* this.fire( type, event ): the events fired by the running handler.
fire(q, event) == [q EXCEPT !.events = Append(@, event)]

\* RemoteQuery#setObsolete.
setObsolete(q) == [q EXCEPT !.status = @ \cup {"OBSOLETE"}]

\* RemoteQuery#refresh( force ).
refresh(q, force) ==
    IF force \/ q.status = {"EMPTY"} \/ "OBSOLETE" \in q.status
    THEN fetchQuery(IF "READY" \in q.status THEN [q EXCEPT !.refresh = TRUE] ELSE q)
    ELSE q

\* A reset that leaves the window table as it is.
resetKeepsWindows(q) ==
    fire([q EXCEPT !.indexOfRequested = <<>>,
                   !.waitingPackets = <<>>,
                   !.preemptives = <<>>,
                   !.isAnExplicitIdFetch = FALSE,
                   !.list = <<>>,
                   !.refresh = FALSE,
                   !.state = 0,
                   !.status = {"EMPTY"},
                   !.length = NULL],
         [type |-> "query:reset"])

\* WindowedRemoteQuery#reset, called without a changed key, and the
\* RemoteQuery#reset it calls.
reset(q) ==
    fire([q EXCEPT !.windows = <<>>,
                   !.indexOfRequested = <<>>,
                   !.waitingPackets = <<>>,
                   !.preemptives = <<>>,
                   !.isAnExplicitIdFetch = FALSE,
                   !.list = <<>>,
                   !.refresh = FALSE,
                   !.state = 0,
                   !.status = {"EMPTY"},
                   !.length = NULL],
         [type |-> "query:reset"])

\* windowCount that leaves out a last window that is not full.
windowCountOfFullWindows(q) ==
    IF q.length = NULL THEN NULL
    ELSE q.length \div q.windowSize

windowCount(q) ==
    IF q.length = NULL THEN NULL
    ELSE ((q.length - 1) \div q.windowSize) + 1

\* windows[i] of the sparse window table: a status, WINDOW_EMPTY when unset.
\* (Get gives Hole for an unset entry.)
windowStatus(windows, i) ==
    IF i >= 0 /\ i < Len(windows) THEN windows[i + 1] ELSE WINDOW_EMPTY

\* allIdsAreLoaded that looks at no window.
allIdsAreLoadedIfLengthKnown(q) == windowCount(q) # NULL

allIdsAreLoaded(q) ==
    /\ windowCount(q) # NULL
    /\ \A l \in 0..(windowCount(q) - 1) : "READY" \in windowStatus(q.windows, l)

checkIfWindowIsFetched(q, index) ==
    LET i == index * q.windowSize
        l == Min(i + q.windowSize, Num(q.length))
    IN  IF i < l THEN ~recordIsMissing(q, Get(q.list, i)) ELSE FALSE

\* The loop of fetchWindow over the windows i..l-1:
\* << windows, doFetch >>.
RECURSIVE fetchWindowLoop(_, _, _, _, _, _, _)
fetchWindowLoop(q, windows, doFetch, index, fetchRecords, i, l) ==
    IF i >= l THEN << windows, doFetch >>
    ELSE LET next(status0, status2, wants, fetched) ==
                 fetchWindowLoop(q, SetAt(windows, i, status2, WINDOW_EMPTY),
                     doFetch \/ status0 = WINDOW_EMPTY \/ (wants /\ ~fetched),
                     index, fetchRecords, i + 1, l)
             records(status0, status1, wants, fetched) ==
                 next(status0,
                      IF ~wants THEN status1
                      ELSE IF fetched THEN {"READY", "RECORDS_READY"}
                      ELSE status1 \cup {"RECORDS_REQUESTED"},
                      wants, fetched)
             requested(status0, status1) ==
                 records(status0, status1,
                         i = index /\ fetchRecords /\ BelowRecordsRequested(status1),
                         "READY" \in status1 /\ checkIfWindowIsFetched(q, i))
             ids(status0) ==
                 requested(status0,
                           IF status0 = WINDOW_EMPTY THEN {"REQUESTED"} ELSE status0)
         IN  ids(windowStatus(windows, i))

\* fetchWindow that goes on to the last window of the list, whatever the
\* prefetch.
fetchWindowToLast(q0, index, fetchRecords, prefetchArg) ==
    LET done(q, r) ==
            IF r[2] THEN fetchQuery([q EXCEPT !.windows = r[1]])
            ELSE [q EXCEPT !.windows = r[1]]
        loop(q, prefetch) ==
            done(q, fetchWindowLoop(q, q.windows, FALSE, index, fetchRecords,
                        Max(0, index - prefetch),
                        Num(windowCount(q))))
        fetch(q) ==
            loop(q, IF prefetchArg = NULL THEN q.prefetch ELSE prefetchArg)
    IN  fetch(IF "OBSOLETE" \in q0.status THEN refresh(q0, FALSE) ELSE q0)

\* fetchWindow( index, fetchRecords, prefetch ); prefetch is NULL when the
\* argument is not given.
fetchWindow(q0, index, fetchRecords, prefetchArg) ==
    LET done(q, r) ==
            IF r[2] THEN fetchQuery([q EXCEPT !.windows = r[1]])
            ELSE [q EXCEPT !.windows = r[1]]
        loop(q, prefetch) ==
            done(q, fetchWindowLoop(q, q.windows, FALSE, index, fetchRecords,
                        Max(0, index - prefetch),
                        Min(index + prefetch + 1, Num(windowCount(q)))))
        fetch(q) ==
            loop(q, IF prefetchArg = NULL THEN q.prefetch ELSE prefetchArg)
    IN  fetch(IF "OBSOLETE" \in q0.status THEN refresh(q0, FALSE) ELSE q0)

fetchDataForObjectAt(q, index) ==
    LET windowIndex == index \div q.windowSize
        withinWindowIndex == index % q.windowSize
        next(q2) ==
            IF withinWindowIndex + q.triggerPoint >= q.windowSize
            THEN fetchWindow(q2, windowIndex + 1, TRUE, NULL) ELSE q2
        previous(q1) ==
            next(IF withinWindowIndex < q.triggerPoint
                 THEN fetchWindow(q1, windowIndex - 1, TRUE, NULL) ELSE q1)
    IN  previous(fetchWindow(q, windowIndex, TRUE, NULL))

\* The loops of recalculateFetchedWindows: the scan of one window for a gap,
\* from listIndex down to target.
RECURSIVE windowHasGap(_, _, _)
windowHasGap(list, listIndex, target) ==
    IF listIndex >= target
    THEN IF Get(list, listIndex) = Hole THEN TRUE
         ELSE windowHasGap(list, listIndex - 1, target)
    ELSE FALSE

\* The loop of recalculateFetchedWindows that leaves the RECORDS_READY flag
\* of a window as it is.
RECURSIVE recalculateLoopKeepsRecordsReady(_, _, _, _, _)
recalculateLoopKeepsRecordsReady(q, windows, windowIndex, listIndex, start) ==
    IF windowIndex < start THEN windows
    ELSE LET target == windowIndex * q.windowSize
             status(kept) ==
                 IF windowHasGap(q.list, listIndex, target)
                 THEN kept \ {"READY"} ELSE kept \cup {"READY"}
         IN  recalculateLoopKeepsRecordsReady(q,
                 SetAt(windows, windowIndex,
                       status(windowStatus(windows, windowIndex)),
                       WINDOW_EMPTY),
                 windowIndex - 1, target - 1, start)

\* The loop of recalculateFetchedWindows over the windows from the last one
\* down to start.
RECURSIVE recalculateLoop(_, _, _, _, _)
recalculateLoop(q, windows, windowIndex, listIndex, start) ==
    IF windowIndex < start THEN windows
    ELSE LET target == windowIndex * q.windowSize
             status(kept) ==
                 IF windowHasGap(q.list, listIndex, target)
                 THEN kept \ {"READY"} ELSE kept \cup {"READY"}
         IN  recalculateLoop(q,
                 SetAt(windows, windowIndex,
                       status(windowStatus(windows, windowIndex) \ {"RECORDS_READY"}),
                       WINDOW_EMPTY),
                 windowIndex - 1, target - 1, start)

\* recalculateFetchedWindows that recalculates from the first window of the
\* list, whatever the start.
recalculateFetchedWindowsFromFirst(q, startArg, lengthArg) ==
    LET loop(length, windowIndex) ==
            [q EXCEPT !.windows =
                recalculateLoop(q, SetLength(q.windows, windowIndex + 1, WINDOW_EMPTY),
                                windowIndex, length - 1, 0)]
        from(length) == loop(length, (length - 1) \div q.windowSize)
    IN  from(Num(IF lengthArg = NULL THEN q.length ELSE lengthArg))

\* recalculateFetchedWindows( start, length ); length is NULL when the
\* argument is not given.
recalculateFetchedWindows(q, startArg, lengthArg) ==
    LET start0 == IF startArg = NULL THEN 0 ELSE startArg
        start == start0 \div q.windowSize
        loop(length, windowIndex) ==
            [q EXCEPT !.windows =
                recalculateLoop(q, SetLength(q.windows, windowIndex + 1, WINDOW_EMPTY),
                                windowIndex, length - 1, start)]
        from(length) == loop(length, (length - 1) \div q.windowSize)
    IN  from(Num(IF lengthArg = NULL THEN q.length ELSE lengthArg))

\* ---- Updates ----

\* The count of the indexes not found that stops at the first one: no key
\* is dropped.
unknownCountNone(removedIndexes, i) == i

\* The number of leading -1 of the sorted removedIndexes.
RECURSIVE unknownCount(_, _)
unknownCount(removedIndexes, i) ==
    IF GetIndex(removedIndexes, i) = NotFound
    THEN unknownCount(removedIndexes, i + 1) ELSE i

\* The loop of _normaliseUpdate over update.added that takes a key added
\* out of the keys removed wherever it is added.
RECURSIVE normaliseAddedAnywhere(_, _, _, _, _, _)
normaliseAddedAnywhere(added, i, rI, rK, aI, aK) ==
    IF i >= Len(added) THEN << rI, rK, aI, aK >>
    ELSE LET index    == added[i + 1][1]
             storeKey == added[i + 1][2]
             next(j)  ==
                 IF j > -1
                 THEN normaliseAddedAnywhere(added, i + 1, SpliceOut(rI, j),
                                             SpliceOut(rK, j), aI, aK)
                 ELSE normaliseAddedAnywhere(added, i + 1, rI, rK,
                                             Append(aI, index), Append(aK, storeKey))
         IN  next(IndexOf(rK, storeKey))

\* The loop of _normaliseUpdate over update.added, from element i on:
\* << removedIndexes, removedStoreKeys, addedIndexes, addedStoreKeys >>.
RECURSIVE normaliseAdded(_, _, _, _, _, _)
normaliseAdded(added, i, rI, rK, aI, aK) ==
    IF i >= Len(added) THEN << rI, rK, aI, aK >>
    ELSE LET index    == added[i + 1][1]
             storeKey == added[i + 1][2]
             next(j)  ==
                 IF j > -1 /\ rI[j + 1] - j + Len(aI) = index
                 THEN normaliseAdded(added, i + 1, SpliceOut(rI, j), SpliceOut(rK, j),
                                     aI, aK)
                 ELSE normaliseAdded(added, i + 1, rI, rK,
                                     Append(aI, index), Append(aK, storeKey))
         IN  next(IndexOf(rK, storeKey))

\* _normaliseUpdate( update ) of update = [removed, added, total, upto];
\* total is NULL when the update has no total.
_normaliseUpdate(q, update) ==
    LET normalised(i, r) ==
            [ removedIndexes     |-> r[1],
              removedStoreKeys   |-> r[2],
              addedIndexes       |-> r[3],
              addedStoreKeys     |-> r[4],
              truncateAtFirstGap |-> i # 0,
              total              |-> IF update.total = NULL
                                     THEN Num(q.length) - Len(r[1]) + Len(r[3])
                                     ELSE update.total,
              upto               |-> update.upto ]
        known(sorted, i) ==
            normalised(i, normaliseAdded(update.added, 0,
                              SliceFrom(sorted[1], i), SliceFrom(sorted[2], i),
                              <<>>, <<>>))
        unknown(sorted) == known(sorted, unknownCount(sorted[1], 0))
    IN  unknown(sortLinkedArrays(mapIndexes(q.list, update.removed), update.removed))

\* The three handlers call one another: _applyUpdate ends with
\* _applyWaitingPackets, which replays packets through sourceDidFetchIdList,
\* which (without delta updates) unwinds the preemptives with _applyUpdate.
RECURSIVE _applyUpdate(_, _)
RECURSIVE _applyWaitingPackets(_)
RECURSIVE sourceDidFetchIdList(_, _)

\* _applyUpdate, "Remove items from list": l = removedLength; while ( l-- ).
\* << list, firstChange >>.
RECURSIVE removeItems(_, _, _, _)
removeItems(list, removedIndexes, l, firstChange) ==
    IF l = 0 THEN << list, firstChange >>
    ELSE LET remove(index) ==
                 removeItems(SpliceOut(list, index), removedIndexes, l - 1,
                     IF index < Num(firstChange) THEN index ELSE firstChange)
         IN  remove(GetIndex(removedIndexes, l - 1))

\* _applyUpdate, "Add items to list". << list, listLength, firstChange >>.
RECURSIVE addItems(_, _, _, _, _, _)
addItems(list, listLength, addedIndexes, addedStoreKeys, i, firstChange) ==
    IF i >= Len(addedStoreKeys) THEN << list, listLength, firstChange >>
    ELSE LET storeKey == addedStoreKeys[i + 1]
             add(index, first) ==
                 IF index >= listLength
                 THEN addItems(SetAt(list, index, storeKey, Hole), index + 1,
                          addedIndexes, addedStoreKeys, i + 1, first)
                 ELSE addItems(SpliceIn(list, index, storeKey), listLength + 1,
                          addedIndexes, addedStoreKeys, i + 1, first)
             at(index) ==
                 add(index, IF index < Num(firstChange) THEN index ELSE firstChange)
         IN  at(GetIndex(addedIndexes, i))

\* The query:updated event an update is reported with.
updatedEvent(args) ==
    [ type           |-> "query:updated",
      removed        |-> args.removedStoreKeys,
      removedIndexes |-> args.removedIndexes,
      added          |-> args.addedStoreKeys,
      addedIndexes   |-> args.addedIndexes ]

\* _applyUpdate without the truncation at the first gap that
\* truncateAtFirstGap asks for.
spliceUpdateNoTruncate(list0, oldLength, args) ==
    LET add(removed) ==
            addItems(removed[1], Len(removed[1]), args.addedIndexes,
                     args.addedStoreKeys, 0, removed[2])
    IN  add(removeItems(list0, args.removedIndexes,
                        Len(args.removedStoreKeys), oldLength))

\* _applyUpdate, from "Remove items from list" to "Add items to list": the
\* removals (from the last index down), the truncation at the first gap and
\* the additions (in ascending order). << list, listLength, firstChange >>.
spliceUpdate(list0, oldLength, args) ==
    LET add(truncated) ==
            addItems(truncated[1], Len(truncated[1]), args.addedIndexes,
                     args.addedStoreKeys, 0, truncated[2])
        truncate(removed, gap) ==
            add(IF args.truncateAtFirstGap
                THEN << SetLength(removed[1], gap, Hole),
                        IF gap < Num(removed[2]) THEN gap ELSE removed[2] >>
                ELSE removed)
        remove(removed) == truncate(removed, FirstGap(removed[1]))
    IN  remove(removeItems(list0, args.removedIndexes,
                           Len(args.removedStoreKeys), oldLength))

_applyUpdate(q, args) ==
    LET oldLength == q.length
        newLength == args.total
        finish(q2) ==
            _applyWaitingPackets(
                fire([q2 EXCEPT !.length = newLength], updatedEvent(args)))
        recalculate(q1, firstChange, changed) ==
            finish(IF changed
                   THEN recalculateFetchedWindows(q1, firstChange, newLength)
                   ELSE q1)
        upto(added, l) ==
            IF args.upto # Hole /\ l = 0
            THEN reset([q EXCEPT !.list = added[1]])
            ELSE recalculate(
                     [q EXCEPT !.list =
                         IF args.upto # Hole /\ l # 0 /\ l # added[2]
                         THEN SetLength(added[1], l, Hole) ELSE added[1]],
                     added[3],
                     \/ Len(args.addedStoreKeys) # 0
                     \/ Len(args.removedStoreKeys) # 0
                     \/ (args.upto # Hole /\ l # 0 /\ l # added[2]))
        splice(added) == upto(added, LastIndexOf(added[1], args.upto) + 1)
    IN  splice(spliceUpdate(q.list, oldLength, args))

\* The loop of _fetchObservedWindows over the windows of one observed range.
RECURSIVE fetchWindows(_, _, _)
fetchWindows(q, firstWindow, lastWindow) ==
    IF firstWindow > lastWindow THEN q
    ELSE fetchWindows(fetchWindow(q, firstWindow, TRUE, NULL),
                      firstWindow + 1, lastWindow)

\* The loop of _fetchObservedWindows over the range observers: l = ranges.length;
\* while ( l-- ).
RECURSIVE fetchObservedRanges(_, _)
fetchObservedRanges(q, l) ==
    IF l = 0 THEN q
    ELSE LET range == q.rangeObservers[l]
             length == Num(q.length)
             observed(observerStart, observerEnd) ==
                 fetchObservedRanges(
                     fetchWindows(q, observerStart \div q.windowSize,
                                     (observerEnd - 1) \div q.windowSize),
                     l - 1)
         IN  observed(IF range.start < 0 THEN range.start + length ELSE range.start,
                      IF range.end < 0 THEN range.end + length ELSE range.end)

_fetchObservedWindows(q) == fetchObservedRanges(q, Len(q.rangeObservers))

\* The loop of _applyWaitingPackets that discards every packet, of the
\* query's state or not.
replayPacketsDropAll(q, l, state, didDropPackets) ==
    << [q EXCEPT !.waitingPackets = SubSeq(@, l + 1, Len(@))],
       didDropPackets \/ l > 0 >>

\* The loop of _applyWaitingPackets: l packets are shifted off the queue;
\* state is the state token read before the loop. << q, didDropPackets >>.
RECURSIVE replayPackets(_, _, _, _)
replayPackets(q, l, state, didDropPackets) ==
    IF l = 0 THEN << q, didDropPackets >>
    ELSE LET shifted(packet, q1) ==
                 IF packet.state # state
                 THEN replayPackets(q1, l - 1, state, TRUE)
                 ELSE replayPackets(sourceDidFetchIdList(q1, packet), l - 1, state,
                                    didDropPackets)
         IN  shifted(Head(q.waitingPackets), [q EXCEPT !.waitingPackets = Tail(@)])

_applyWaitingPackets(q) ==
    LET replayed(r) == IF r[2] THEN _fetchObservedWindows(r[1]) ELSE r[1]
    IN  replayed(replayPackets(q, Len(q.waitingPackets), q.state, FALSE))

\* The adjustment gone wrong: an index removed before the slice does not
\* move the slice down.
RECURSIVE adjustForRemovedKeepsPosition(_, _, _, _, _)
adjustForRemovedKeepsPosition(storeKeys, position, length, removedIndexes, l) ==
    IF l = 0 THEN << storeKeys, position, length >>
    ELSE LET index == removedIndexes[l] - position
         IN  IF index < length /\ index >= 0
             THEN adjustForRemovedKeepsPosition(SpliceOut(storeKeys, index),
                      position, length - 1, removedIndexes, l - 1)
             ELSE adjustForRemovedKeepsPosition(storeKeys, position, length,
                      removedIndexes, l - 1)

\* sourceDidFetchIdList, the adjustment of the fetched slice for the indexes
\* removed by the preemptives: l = removedIndexes.length; while ( l-- ).
\* << storeKeys, position, length >>.
RECURSIVE adjustForRemoved(_, _, _, _, _)
adjustForRemoved(storeKeys, position, length, removedIndexes, l) ==
    IF l = 0 THEN << storeKeys, position, length >>
    ELSE LET index == removedIndexes[l] - position
         IN  IF index < length
             THEN IF index >= 0
                  THEN adjustForRemoved(SpliceOut(storeKeys, index), position,
                           length - 1, removedIndexes, l - 1)
                  ELSE adjustForRemoved(storeKeys, position - 1, length,
                           removedIndexes, l - 1)
             ELSE adjustForRemoved(storeKeys, position, length, removedIndexes, l - 1)

\* ... and for the indexes added by the preemptives (the loop breaks at the
\* first index past the slice).
RECURSIVE adjustForAdded(_, _, _, _, _, _)
adjustForAdded(storeKeys, position, length, addedIndexes, addedStoreKeys, i) ==
    IF i >= Len(addedIndexes) THEN << storeKeys, position, length >>
    ELSE LET index == addedIndexes[i + 1] - position
         IN  IF index <= 0
             THEN adjustForAdded(storeKeys, position + 1, length,
                      addedIndexes, addedStoreKeys, i + 1)
             ELSE IF index < length
             THEN adjustForAdded(SpliceIn(storeKeys, index, Get(addedStoreKeys, i)),
                      position, length + 1, addedIndexes, addedStoreKeys, i + 1)
             ELSE << storeKeys, position, length >>

\* list[ position + i ] = storeKeys[i] for i < length: the list the loop
\* leaves, longer than before when the slice ends past its end.
insertStoreKeys(list, storeKeys, position, length, i) ==
    [j \in 1..Max(Len(list), IF i < length THEN position + length ELSE 0) |->
        IF j - 1 >= position + i /\ j - 1 < position + length
        THEN Get(storeKeys, j - 1 - position)
        ELSE Get(list, j - 1)]

\* The loop with > in place of >=: a slice that ends with the window does
\* not complete it.
RECURSIVE markFullWindowsStrict(_, _, _, _)
markFullWindowsStrict(windows, windowIndex, length, windowSize) ==
    IF length - windowSize > 0
    THEN markFullWindowsStrict(
             SetAt(windows, windowIndex,
                   windowStatus(windows, windowIndex) \cup {"READY"}, WINDOW_EMPTY),
             windowIndex + 1, length - windowSize, windowSize)
    ELSE << windows, windowIndex, length - windowSize >>

\* while ( ( length -= windowSize ) >= 0 ) windows[ windowIndex ] |= READY.
\* << windows, windowIndex, length >>, length as the loop leaves it.
RECURSIVE markFullWindows(_, _, _, _)
markFullWindows(windows, windowIndex, length, windowSize) ==
    IF length - windowSize >= 0
    THEN markFullWindows(
             SetAt(windows, windowIndex,
                   windowStatus(windows, windowIndex) \cup {"READY"}, WINDOW_EMPTY),
             windowIndex + 1, length - windowSize, windowSize)
    ELSE << windows, windowIndex, length - windowSize >>

\* The test of the packet's state left out: no packet is taken to be of
\* another state.
stateMismatchNever(q, args) == FALSE

\* state && state !== args.state: the list has changed since the packet's
\* state, or the packet is of a state the query has not reached.
stateMismatch(q, args) == q.state # 0 /\ q.state # args.state

\* sourceDidFetchIdList( args ), args = [state, sort, filter, idList,
\* position, total].
sourceDidFetchIdList(q, args) ==
    IF ~isEqual(args.sort, q.sort) \/ ~isEqual(args.filter, q.filter) THEN q
    ELSE
    LET status == q.status
        mismatch == stateMismatch(q, args)
    IN
    IF mismatch /\ q.canGetDeltaUpdates
    THEN refresh(setObsolete([q EXCEPT !.waitingPackets = Append(@, args)]), FALSE)
    ELSE
    LET written(q2, list, windows, total) ==
            fire([q2 EXCEPT !.list = list,
                            !.windows = windows,
                            !.length = total,
                            !.status = IF "EMPTY" \in status THEN {"READY"} ELSE status],
                 [type |-> "query:idsLoaded"])
        lastWindow(q2, list, total, end, marked, length2) ==
            written(q2, list,
                IF length2 # 0 /\ end = total /\ length2 = total % q2.windowSize
                THEN SetAt(marked[1], marked[2],
                         windowStatus(marked[1], marked[2]) \cup {"READY"},
                         WINDOW_EMPTY)
                ELSE marked[1],
                total)
        fullWindows(q2, list, total, end, marked) ==
            lastWindow(q2, list, total, end, marked, marked[3] + q2.windowSize)
        mark(q2, list, total, position, length, windowIndex, withinWindowIndex,
             beginningOfWindowIsFetched) ==
            fullWindows(q2, list, total, position + length,
                markFullWindows(q2.windows,
                    IF withinWindowIndex # 0 /\ ~beginningOfWindowIsFetched
                    THEN windowIndex + 1 ELSE windowIndex,
                    IF withinWindowIndex = 0 THEN length
                    ELSE IF beginningOfWindowIsFetched
                    THEN length + withinWindowIndex
                    ELSE length - (q2.windowSize - withinWindowIndex),
                    q2.windowSize))
        beginning(q2, list, total, position, length, windowIndex, withinWindowIndex) ==
            mark(q2, list, total, position, length, windowIndex, withinWindowIndex,
                 \A i \in (windowIndex * q2.windowSize)..
                          (windowIndex * q2.windowSize + withinWindowIndex - 1) :
                     Get(list, i) # Hole)
        insert(q2, total, storeKeys, position, length) ==
            beginning(q2, insertStoreKeys(q2.list, storeKeys, position, length, 0),
                      total, position, length,
                      position \div q2.windowSize, position % q2.windowSize)
        adjusted(q2, total, slice) == insert(q2, total, slice[1], slice[2], slice[3])
        adjustAdded(q1, allPreemptives, afterRemoved) ==
            adjusted(q1, allPreemptives.total,
                adjustForAdded(afterRemoved[1], afterRemoved[2], afterRemoved[3],
                    allPreemptives.addedIndexes, allPreemptives.addedStoreKeys, 0))
        unwind(q1, storeKeys, allPreemptives) ==
            IF q1.canGetDeltaUpdates
            THEN adjustAdded(q1, allPreemptives,
                     adjustForRemoved(storeKeys, args.position, Len(storeKeys),
                         allPreemptives.removedIndexes,
                         Len(allPreemptives.removedIndexes)))
            ELSE adjusted([ _applyUpdate(q1, invertUpdate(allPreemptives))
                            EXCEPT !.preemptives = <<>> ],
                          args.total,
                          << storeKeys, args.position, Len(storeKeys) >>)
        stateSet(q1, storeKeys) ==
            IF Len(q1.preemptives) # 0
            THEN unwind(q1, storeKeys,
                        reduceCompose(q1.preemptives, Len(q1.preemptives)))
            ELSE adjusted(q1, args.total,
                          << storeKeys, args.position, Len(storeKeys) >>)
    IN  stateSet([ (IF mismatch
                    THEN [q EXCEPT !.list = <<>>, !.windows = <<>>, !.preemptives = <<>>]
                    ELSE q)
                   EXCEPT !.state = args.state ],
                 [i \in 1..Len(args.idList) |-> toStoreKey(args.idList[i])])

\* clientDidGenerateUpdate that leaves truncateAtFirstGap as the
\* normalisation set it.
clientDidGenerateUpdateTruncates(q, update) ==
    LET apply(normalised) ==
            refresh([ _applyUpdate(q, normalised)
                      EXCEPT !.preemptives = Append(@, normalised),
                             !.status = @ \cup {"DIRTY"} ],
                    TRUE)
    IN  apply(_normaliseUpdate(q, update))

\* clientDidGenerateUpdate( update ), update = [removed, added] with store
\* keys.
clientDidGenerateUpdate(q, update) ==
    LET apply(normalised) ==
            refresh([ _applyUpdate(q, normalised)
                      EXCEPT !.preemptives = Append(@, normalised),
                             !.status = @ \cup {"DIRTY"} ],
                    TRUE)
    IN  apply([_normaliseUpdate(q, update) EXCEPT !.truncateAtFirstGap = FALSE])

equalArrays(a1, a2) == a1 = a2

\* The comparison of two updates that leaves their totals out.
updateIsEqualButTotal(u1, u2) ==
    /\ equalArrays(u1.addedIndexes, u2.addedIndexes)
    /\ equalArrays(u1.addedStoreKeys, u2.addedStoreKeys)
    /\ equalArrays(u1.removedIndexes, u2.removedIndexes)
    /\ equalArrays(u1.removedStoreKeys, u2.removedStoreKeys)

updateIsEqual(u1, u2) ==
    /\ u1.total = u2.total
    /\ equalArrays(u1.addedIndexes, u2.addedIndexes)
    /\ equalArrays(u1.addedStoreKeys, u2.addedStoreKeys)
    /\ equalArrays(u1.removedIndexes, u2.removedIndexes)
    /\ equalArrays(u1.removedStoreKeys, u2.removedStoreKeys)

\* Step 1 gone wrong: each preemptive is composed with the preemptive
\* before it, not with the composition so far.
composedPreemptivesPairwise(preemptives) ==
    [i \in 1..Len(preemptives) |->
        IF i = 1 THEN preemptives[1]
        ELSE composeUpdates(preemptives[i - 1], preemptives[i])]

\* sourceDidFetchUpdate, step 1: [p1, p2, p3] -> [p1, p1 + p2, p1 + p2 + p3].
composedPreemptives(preemptives) ==
    [i \in 1..Len(preemptives) |-> reduceCompose(preemptives, i)]

\* The search of step 2 gone wrong: a store key the preemptives have removed
\* already is not looked up in them, and is taken for one in a gap.
RECURSIVE findRemovedInListOnly(_, _, _, _, _)
findRemovedInListOnly(removed, i, allPreemptives, list, acc) ==
    IF i >= Len(removed) THEN acc
    ELSE LET storeKey == removed[i + 1]
             next(inList) ==
                 findRemovedInListOnly(removed, i + 1, allPreemptives, list,
                     IF inList > -1
                     THEN [acc EXCEPT !.indexes = Append(@, inList),
                                      !.storeKeys = Append(@, storeKey)]
                     ELSE [acc EXCEPT !.truncate = TRUE])
         IN  next(IndexOf(list, storeKey))

\* sourceDidFetchUpdate, step 2, the search for the index each removed store
\* key had in the previous state, from element i of removed on:
\* [removedIndexes, removedStoreKeys, indexes, storeKeys, truncate], the
\* second pair being _indexes and _storeKeys.
RECURSIVE findRemoved(_, _, _, _, _)
findRemoved(removed, i, allPreemptives, list, acc) ==
    IF i >= Len(removed) THEN acc
    ELSE LET storeKey == removed[i + 1]
             next(index, inList) ==
                 findRemoved(removed, i + 1, allPreemptives, list,
                     IF index > -1
                     THEN [acc EXCEPT
                             !.removedIndexes =
                                 Append(@, allPreemptives.removedIndexes[index + 1]),
                             !.removedStoreKeys = Append(@, storeKey)]
                     ELSE IF inList > -1
                     THEN [acc EXCEPT !.indexes = Append(@, inList),
                                      !.storeKeys = Append(@, storeKey)]
                     ELSE [acc EXCEPT !.truncate = TRUE])
         IN  next(IndexOf(allPreemptives.removedStoreKeys, storeKey),
                  IndexOf(list, storeKey))

\* _storeKeys.reduce( ... ): the indexes x gives the store keys it still
\* removes, from element i of _storeKeys on.
RECURSIVE originalIndexes(_, _, _)
originalIndexes(storeKeys, x, i) ==
    IF i >= Len(storeKeys) THEN <<>>
    ELSE LET push(j) ==
                 (IF j > -1 THEN <<x.removedIndexes[j + 1]>> ELSE <<>>)
                     \o originalIndexes(storeKeys, x, i + 1)
         IN  push(IndexOf(x.removedStoreKeys, storeKeys[i + 1]))

\* "Now remove any idempotent operations": l = addedIndexes.length;
\* while ( l-- ). << removedIndexes, removedStoreKeys, addedIndexes,
\* addedStoreKeys >>.
RECURSIVE removeIdempotent(_, _, _, _, _)
removeIdempotent(rI, rK, aI, aK, l) ==
    IF l = 0 THEN << rI, rK, aI, aK >>
    ELSE LET storeKey == aK[l]
             next(i)  ==
                 IF i > -1 /\ rI[i + 1] - i + (l - 1) = aI[l]
                 THEN removeIdempotent(SpliceOut(rI, i), SpliceOut(rK, i),
                          SpliceOut(aI, l - 1), SpliceOut(aK, l - 1), l - 1)
                 ELSE removeIdempotent(rI, rK, aI, aK, l - 1)
         IN  next(IndexOf(rK, storeKey))

\* sourceDidFetchUpdate, step 2: the update of the server (store keys
\* already mapped), normalised against the queued preemptives.
normaliseServerUpdate(q, update) ==
    LET normalised(normalisedUpdate, found, r) ==
            [ normalisedUpdate EXCEPT
                !.truncateAtFirstGap = found.truncate,
                !.removedIndexes = r[1], !.removedStoreKeys = r[2],
                !.addedIndexes = r[3], !.addedStoreKeys = r[4] ]
        idempotent(normalisedUpdate, found, sorted) ==
            normalised(normalisedUpdate, found,
                removeIdempotent(sorted[1], sorted[2],
                    normalisedUpdate.addedIndexes, normalisedUpdate.addedStoreKeys,
                    Len(normalisedUpdate.addedIndexes)))
        sort(normalisedUpdate, found, indexes) ==
            idempotent(normalisedUpdate, found,
                sortLinkedArrays(
                    found.removedIndexes \o indexes,
                    found.removedStoreKeys \o SubSeq(found.storeKeys, 1, Len(indexes))))
        search(normalisedUpdate, allPreemptives, found) ==
            sort(normalisedUpdate, found,
                IF Len(found.indexes) # 0
                THEN originalIndexes(found.storeKeys,
                         composeUpdates(allPreemptives,
                             [removedIndexes |-> found.indexes,
                              removedStoreKeys |-> found.storeKeys,
                              addedIndexes |-> <<>>, addedStoreKeys |-> <<>>,
                              truncateAtFirstGap |-> FALSE, total |-> NULL,
                              upto |-> Hole]),
                         0)
                ELSE <<>>)
        compose(normalisedUpdate, allPreemptives) ==
            search(normalisedUpdate, allPreemptives,
                findRemoved(update.removed, 0, allPreemptives, q.list,
                    [removedIndexes |-> <<>>, removedStoreKeys |-> <<>>,
                     indexes |-> <<>>, storeKeys |-> <<>>, truncate |-> FALSE]))
    IN  compose(_normaliseUpdate(q,
                    [removed |-> <<>>, added |-> update.added,
                     total |-> update.total, upto |-> update.upto]),
                reduceCompose(q.preemptives, Len(q.preemptives)))

\* Step 3 gone wrong: while ( --l ), which never compares composed[0].
matchingPreemptiveSkipsFirst(normalisedUpdate, composed) ==
    IF \E l \in 2..Len(composed) : updateIsEqual(normalisedUpdate, composed[l])
    THEN (CHOOSE l \in 2..Len(composed) :
            /\ updateIsEqual(normalisedUpdate, composed[l])
            /\ \A k \in (l + 1)..Len(composed) :
                   ~updateIsEqual(normalisedUpdate, composed[k])) - 1
    ELSE -1

\* Step 3 gone wrong: the loop runs upwards and stops at the first
\* composed[l] the normalised update is equal to.
matchingPreemptiveFromFirst(normalisedUpdate, composed) ==
    IF \E l \in 1..Len(composed) : updateIsEqual(normalisedUpdate, composed[l])
    THEN (CHOOSE l \in 1..Len(composed) :
            /\ updateIsEqual(normalisedUpdate, composed[l])
            /\ \A k \in 1..(l - 1) :
                   ~updateIsEqual(normalisedUpdate, composed[k])) - 1
    ELSE -1

\* sourceDidFetchUpdate, step 3: the index l of the last composed[l] the
\* normalised update is equal to (l = composed.length; while ( l-- )), or -1.
matchingPreemptive(normalisedUpdate, composed) ==
    IF \E l \in 1..Len(composed) : updateIsEqual(normalisedUpdate, composed[l])
    THEN (CHOOSE l \in 1..Len(composed) :
            /\ updateIsEqual(normalisedUpdate, composed[l])
            /\ \A k \in (l + 1)..Len(composed) :
                   ~updateIsEqual(normalisedUpdate, composed[k])) - 1
    ELSE -1

\* The status gone wrong: the update clears DIRTY along with LOADING.
notLoadingNorDirty(status) == status \ {"LOADING", "DIRTY"}

\* sourceDidFetchUpdate: "We've got an update, so we're no longer in the
\* LOADING state": status & ~LOADING.
notLoading(status) == status \ {"LOADING"}

\* sourceDidFetchUpdate: "Check we've not already got this update".
alreadyGotUpdate(state, update) == state = update.newState

\* The test of the old state gone wrong: left out, and made to refuse only
\* the updates from a state later than the query's own.
cannotUpdateFromNever(state, update) == FALSE
cannotUpdateFromLater(state, update) == state < update.oldState

\* sourceDidFetchUpdate: "We can only update from our old state".
cannotUpdateFrom(state, update) == state # update.oldState

\* The preemptives that are left are never undone.
mustUndoPreemptivesNever(status, preemptives) == FALSE

\* The test of DIRTY gone wrong: the preemptives are undone when the query
\* is dirty, and kept when it is not.
mustUndoPreemptivesWhenDirty(status, preemptives) ==
    "DIRTY" \in status /\ Len(preemptives) # 0

\* sourceDidFetchUpdate: the preemptives that are left are to be undone:
\* !( status & DIRTY ) && preemptives.length.
mustUndoPreemptives(status, preemptives) ==
    "DIRTY" \notin status /\ Len(preemptives) # 0

\* sourceDidFetchUpdate( update ), update = [oldState, newState, sort,
\* removed, added, total, upto] with record ids.
sourceDidFetchUpdate(q0, update0) ==
    LET state  == q0.state
        status == q0.status
        l      == Len(q0.preemptives)
        q      == [q0 EXCEPT !.status = notLoading(@)]
    IN
    IF alreadyGotUpdate(state, update0)
    THEN IF mustUndoPreemptives(status, q.preemptives)
         THEN [ _applyUpdate(q, invertUpdate(reduceCompose(q.preemptives, l)))
                EXCEPT !.preemptives = <<>> ]
         ELSE q
    ELSE IF cannotUpdateFrom(state, update0) THEN setObsolete(q)
    ELSE IF ~isEqual(update0.sort, q.sort) \/ ~isEqual(update0.filter, q.filter)
    THEN q
    ELSE
    LET q1 == [q EXCEPT !.state = update0.newState]
        update == [ update0 EXCEPT
            !.removed = [i \in 1..Len(update0.removed) |-> toStoreKey(update0.removed[i])],
            !.added = [i \in 1..Len(update0.added) |->
                          <<update0.added[i][1], toStoreKey(update0.added[i][2])>>],
            !.upto = toStoreKey(update0.upto) ]
    IN
    IF l = 0 THEN _applyUpdate(q1, _normaliseUpdate(q1, update))
    ELSE
    LET reconciled(q3, wasSuccessfulPreemptive, allPreemptives, normalisedUpdate) ==
            IF wasSuccessfulPreemptive
            THEN IF mustUndoPreemptives(status, q3.preemptives)
                 THEN [ _applyUpdate(q3, invertUpdate(
                            reduceCompose(q3.preemptives, Len(q3.preemptives))))
                        EXCEPT !.preemptives = <<>> ]
                 ELSE _applyWaitingPackets(q3)
            ELSE _applyUpdate([q1 EXCEPT !.preemptives = <<>>],
                     composeUpdates(invertUpdate(allPreemptives), normalisedUpdate))
        truncated(q2, gap, wasSuccessfulPreemptive, allPreemptives, normalisedUpdate) ==
            reconciled(
                IF normalisedUpdate.truncateAtFirstGap /\ Len(q2.list) # gap
                THEN recalculateFetchedWindows(
                         [q2 EXCEPT !.list = SetLength(@, gap, Hole)], gap, NULL)
                ELSE q2,
                wasSuccessfulPreemptive, allPreemptives, normalisedUpdate)
        \* preemptives.splice( 0, l + 1 )
        spliced(q2, wasSuccessfulPreemptive, allPreemptives, normalisedUpdate) ==
            truncated(q2, FirstGap(q2.list), wasSuccessfulPreemptive,
                      allPreemptives, normalisedUpdate)
        matched(match, unchanged, allPreemptives, normalisedUpdate) ==
            spliced(IF match > -1
                    THEN [q1 EXCEPT !.preemptives = SubSeq(@, match + 2, Len(@))]
                    ELSE q1,
                    unchanged \/ match > -1, allPreemptives, normalisedUpdate)
        compared(composed, normalisedUpdate, unchanged) ==
            matched(IF unchanged THEN -1
                    ELSE matchingPreemptive(normalisedUpdate, composed),
                    unchanged, composed[l], normalisedUpdate)
        normalised(composed, normalisedUpdate) ==
            compared(composed, normalisedUpdate,
                     Len(normalisedUpdate.removedStoreKeys) = 0
                         /\ Len(normalisedUpdate.addedStoreKeys) = 0)
    IN  normalised(composedPreemptives(q1.preemptives),
                   normaliseServerUpdate(q1, update))

\* Where (a,b) and (c,d) are ranges, a < b and c < d.
intersect(a, b, c, d) == IF a < c THEN c < b ELSE a < d

\* windowIsStillInUse with the margin of one more window on both sides of
\* the observed range.
windowIsStillInUseWiderMargin(index, windowSize, prefetch, ranges) ==
    LET start  == index * windowSize
        margin == (prefetch + 1) * windowSize
    IN  \E j \in 1..Len(ranges) :
            intersect(start, start + windowSize,
                      ranges[j].start - margin, ranges[j].end + margin)

\* windowIsStillInUse( index, windowSize, prefetch, ranges ): a range
\* observer intersects the window, the prefetch distance added to its range.
windowIsStillInUse(index, windowSize, prefetch, ranges) ==
    LET start  == index * windowSize
        margin == prefetch * windowSize
    IN  \E j \in 1..Len(ranges) :
            intersect(start, start + windowSize,
                      ranges[j].start - margin, ranges[j].end + margin)

\* idRequests.push( { start, count } ) for every window, whether or not
\* it follows the previous range.
addWindowToRequestsAlwaysPushes(requests, start, windowSize) ==
    Append(requests, [start |-> start, count |-> windowSize])

\* idRequests.push( iPrev = { start, count } ), or iPrev.count += windowSize
\* when the window follows the previous range.
addWindowToRequests(requests, start, windowSize) ==
    IF Len(requests) # 0
       /\ requests[Len(requests)].start + requests[Len(requests)].count = start
    THEN [requests EXCEPT ![Len(requests)].count = @ + windowSize]
    ELSE Append(requests, [start |-> start, count |-> windowSize])

\* The loop of sourceWillFetchQuery over the windows, from window i on;
\* acc = [windows, ids, records].
RECURSIVE willFetchLoop(_, _, _, _, _)
willFetchLoop(q, acc, i, isAnExplicitIdFetch, fetchAllObservedIds) ==
    IF i >= Len(q.windows) THEN acc
    ELSE
    LET status == q.windows[i + 1]
        start  == i * q.windowSize
        idsRequested(inUseR, status1, records1, fetchI) ==
            willFetchLoop(q,
                [ windows |-> [acc.windows EXCEPT ![i + 1] =
                                  IF "REQUESTED" \notin status1 THEN status1
                                  ELSE (IF fetchI THEN status1 \cup {"LOADING"}
                                        ELSE status1) \ {"REQUESTED"}],
                  ids     |-> IF fetchI
                              THEN addWindowToRequests(acc.ids, start, q.windowSize)
                              ELSE acc.ids,
                  records |-> records1 ],
                i + 1, isAnExplicitIdFetch, fetchAllObservedIds)
        recordsRequested(inUseR, status1, records1) ==
            idsRequested(inUseR, status1, records1,
                "REQUESTED" \in status1 /\ (inUseR \/ isAnExplicitIdFetch))
        requested(inUseR, hasR) ==
            recordsRequested(inUseR,
                IF ~hasR THEN status
                ELSE IF inUseR
                THEN ((status \ {"RECORDS_REQUESTED"})
                         \cup {"LOADING", "RECORDS_LOADING"}) \ {"REQUESTED"}
                ELSE IF ~isAnExplicitIdFetch
                THEN (status \ {"RECORDS_REQUESTED"}) \ {"REQUESTED"}
                ELSE (status \ {"RECORDS_REQUESTED"}) \cup {"REQUESTED"},
                IF hasR /\ inUseR
                THEN addWindowToRequests(acc.records, start, q.windowSize)
                ELSE acc.records)
        window(inUse) ==
            IF status \cap {"REQUESTED", "RECORDS_REQUESTED"} # {}
            THEN requested(~q.optimiseFetching \/ inUse, "RECORDS_REQUESTED" \in status)
            ELSE willFetchLoop(q,
                     [ acc EXCEPT !.ids =
                         IF fetchAllObservedIds /\ inUse
                         THEN addWindowToRequests(@, start, q.windowSize) ELSE @ ],
                     i + 1, isAnExplicitIdFetch, fetchAllObservedIds)
    IN  window(windowIsStillInUse(i, q.windowSize, q.prefetch, q.rangeObservers))

\* sourceWillFetchQuery without windows[i] = status: the flags of the
\* windows are left as they were.
sourceWillFetchQueryKeepsFlags(q) ==
    LET refreshRequested == q.refresh
        fetchAllObservedIds == refreshRequested /\ ~q.canGetDeltaUpdates
        sent(q1, acc) ==
            << IF refreshRequested \/ "EMPTY" \in q1.status
               THEN [q1 EXCEPT !.status = (@ \cup {"LOADING"}) \ {"OBSOLETE", "DIRTY"}]
               ELSE q1,
               [ ids |-> acc.ids, records |-> acc.records,
                 indexOf |-> q.indexOfRequested, refresh |-> refreshRequested ] >>
        requests(acc) ==
            sent([q EXCEPT !.isAnExplicitIdFetch = FALSE,
                           !.indexOfRequested = <<>>,
                           !.refresh = FALSE],
                 acc)
    IN  requests(willFetchLoop(q,
                     [windows |-> q.windows, ids |-> <<>>, records |-> <<>>],
                     0, q.isAnExplicitIdFetch, fetchAllObservedIds))

\* sourceWillFetchQuery(): << the query, the request descriptor >>.
sourceWillFetchQuery(q) ==
    LET refreshRequested == q.refresh
        fetchAllObservedIds == refreshRequested /\ ~q.canGetDeltaUpdates
        sent(q1, acc) ==
            << IF refreshRequested \/ "EMPTY" \in q1.status
               THEN [q1 EXCEPT !.status = (@ \cup {"LOADING"}) \ {"OBSOLETE", "DIRTY"}]
               ELSE q1,
               [ ids |-> acc.ids, records |-> acc.records,
                 indexOf |-> q.indexOfRequested, refresh |-> refreshRequested ] >>
        requests(acc) ==
            sent([q EXCEPT !.isAnExplicitIdFetch = FALSE,
                           !.indexOfRequested = <<>>,
                           !.refresh = FALSE,
                           !.windows = acc.windows],
                 acc)
    IN  requests(willFetchLoop(q,
                     [windows |-> q.windows, ids |-> <<>>, records |-> <<>>],
                     0, q.isAnExplicitIdFetch, fetchAllObservedIds))

\* The callback that clears the flags of the windows and leaves the
\* status of the query as it is.
fetchCallbackOfWindows(q) ==
    [q EXCEPT !.windows = [i \in 1..Len(@) |-> @[i] \ {"LOADING", "RECORDS_LOADING"}]]

\* The callback of the request descriptor of sourceWillFetchQuery.
fetchCallback(q) ==
    [q EXCEPT !.windows = [i \in 1..Len(@) |-> @[i] \ {"LOADING", "RECORDS_LOADING"}],
              !.status = @ \ {"LOADING"}]

\* ------------------------------------------------------------------------
\* State
\* ------------------------------------------------------------------------

VARIABLES
    query,      \* the O.WindowedRemoteQuery object: its properties and fields
    server,     \* the list of record ids of the server at each state token
    net,        \* the responses of the source that are in flight
    clientUpdates, \* the number of clientDidGenerateUpdate calls so far
    refreshes,  \* the number of refresh calls by the application so far
    reads,      \* the number of fetchDataForObjectAt calls so far
    op,         \* the last call made on the query: its name and argument
    pre         \* the query as it was before that call

vars == << query, server, net, clientUpdates, refreshes, reads, op, pre >>

Ids == 1..NumIds
StoreKeys == { getStoreKey(id) : id \in Ids }

\* The server's list the query stood at the start with.
InitialIds == << 1, 2, 3 >>

\* A query over a list of which nothing has been fetched (init).
NewQuery ==
    [ list |-> <<>>, length |-> NULL, state |-> 0, status |-> {"EMPTY"},
      windows |-> <<>>, indexOfRequested |-> <<>>, waitingPackets |-> <<>>,
      preemptives |-> <<>>, isAnExplicitIdFetch |-> FALSE,
      awaitingIdFetch |-> <<>>,
      refresh |-> FALSE, fetchRequested |-> FALSE, events |-> <<>>,
      sort |-> "sort", filter |-> "filter", loaded |-> {},
      rangeObservers |-> <<>>,
      windowSize |-> 2, triggerPoint |-> 1, prefetch |-> 1,
      optimiseFetching |-> FALSE, canGetDeltaUpdates |-> TRUE ]

\* The server's list at a state token, and its latest state token.
ServerList(token) == server[token]
LatestState == Len(server)

\* The keys of a list of ids.
KeysOf(ids) == [i \in 1..Len(ids) |-> toStoreKey(ids[i])]

\* A query whose whole list, the given store keys, is fetched.
LoadedQuery(keys) ==
    [ NewQuery EXCEPT
        !.list = keys,
        !.length = Len(keys),
        !.state = 1,
        !.status = {"READY"},
        !.windows = [w \in 1..((Len(keys) - 1) \div NewQuery.windowSize + 1) |->
                        {"READY"}] ]

\* The elements of a sequence.
Range(a) == { a[i] : i \in 1..Len(a) }

\* The elements of a that are not in the set s, in order.
RECURSIVE Without(_, _)
Without(a, s) ==
    IF a = <<>> THEN <<>>
    ELSE (IF Head(a) \in s THEN <<>> ELSE <<Head(a)>>) \o Without(Tail(a), s)

\* The pairs [ index, id ] of the ids of a that are not in the set s.
RECURSIVE AddedPairs(_, _, _)
AddedPairs(a, s, i) ==
    IF i > Len(a) THEN <<>>
    ELSE (IF a[i] \in s THEN <<>> ELSE << <<i - 1, a[i]>> >>) \o AddedPairs(a, s, i + 1)

\* The delta the source fetches for the query from one state of the server
\* to a later one: the ids removed since oldState, the [ index, id ] pairs
\* added since, in ascending order of index, and the total.
Delta(oldState, newState) ==
    [ oldState |-> oldState, newState |-> newState,
      sort |-> query.sort, filter |-> query.filter,
      removed  |-> Without(ServerList(oldState), Range(ServerList(newState))),
      added    |-> AddedPairs(ServerList(newState), Range(ServerList(oldState)), 1),
      total    |-> Len(ServerList(newState)),
      upto     |-> Hole ]

\* The updates the client may generate on the list as it stands: the
\* removal of a record of the list, or the insertion of a record that is
\* not in it.
ClientUpdateInputs ==
    LET keys == Range(query.list) \ {Hole}
    IN  { [removed |-> <<k>>, added |-> <<>>, total |-> NULL, upto |-> Hole] :
            k \in keys }
        \cup
        { [removed |-> <<>>, added |-> << <<i, k>> >>, total |-> NULL, upto |-> Hole] :
            i \in 0..Len(query.list), k \in StoreKeys \ keys }

\* The ids that were in the server's list at no state so far.
FreshIds == Ids \ UNION { Range(server[t]) : t \in 1..Len(server) }

\* The start of a call on the query: no event has been fired by it yet.
Entered == [query EXCEPT !.events = <<>>]

\* ------------------------------------------------------------------------
\* Operations
\* ------------------------------------------------------------------------

\* The query with its whole list fetched at the server's first state.
Init ==
    /\ server = << InitialIds >>
    /\ query = LoadedQuery(KeysOf(InitialIds))
    /\ net = {}
    /\ clientUpdates = 0
    /\ refreshes = 0
    /\ reads = 0
    /\ op = [name |-> "init"]
    /\ pre = query

\* The client changes the list ahead of the server.
ClientDidGenerateUpdate(update) ==
    /\ clientUpdates < MaxClientUpdates
    /\ query' = clientDidGenerateUpdate(Entered, update)
    /\ clientUpdates' = clientUpdates + 1
    /\ op' = [name |-> "clientDidGenerateUpdate", update |-> update]
    /\ pre' = Entered
    /\ UNCHANGED << server, net, refreshes, reads >>

\* The application asks for the query to be refreshed: refresh( true ).
Refresh ==
    /\ refreshes < MaxRefreshes
    /\ ~query.fetchRequested
    /\ query' = refresh(Entered, TRUE)
    /\ refreshes' = refreshes + 1
    /\ op' = [name |-> "refresh"]
    /\ pre' = Entered
    /\ UNCHANGED << server, net, clientUpdates, reads >>

\* A record leaves the server's list.
ServerRemoves(i) ==
    /\ Len(server) < MaxServerStates
    /\ server' = Append(server, SpliceOut(server[Len(server)], i))
    /\ UNCHANGED << query, net, clientUpdates, refreshes, reads, op, pre >>

\* A record that was never in it enters the server's list.
ServerAdds(i, id) ==
    /\ Len(server) < MaxServerStates
    /\ id \in FreshIds
    /\ server' = Append(server, SpliceIn(server[Len(server)], i, id))
    /\ UNCHANGED << query, net, clientUpdates, refreshes, reads, op, pre >>

\* The packet of ids the source fetches for a range of the list, at the
\* server's latest state.
IdList(range) ==
    [ state    |-> LatestState,
      sort     |-> query.sort,
      filter   |-> query.filter,
      idList   |-> SubSeq(ServerList(LatestState), range.start + 1,
                       Min(range.start + range.count, Len(ServerList(LatestState)))),
      position |-> range.start,
      total    |-> Len(ServerList(LatestState)) ]

\* The source sends the request for the query (Source#fetchQuery): it asks
\* the query what to fetch, and the server answers, in this order, the
\* delta from the query's state to its latest state if a refresh is due,
\* the ids of each range asked for, with or without records, and the ids of
\* the first window if the query is EMPTY and asks for no range; the
\* request's callback follows.
SourceFetchesQuery ==
    /\ query.fetchRequested
    /\ Cardinality(net) < MaxInFlight
    /\ LET answer(r, ranges) ==
               /\ query' = [r[1] EXCEPT !.fetchRequested = FALSE]
               /\ net' = net \cup
                    { (IF r[2].refresh /\ query.canGetDeltaUpdates /\ query.state # 0
                       THEN << [call |-> "sourceDidFetchUpdate",
                                args |-> Delta(query.state, LatestState)] >>
                       ELSE <<>>)
                      \o [i \in 1..Len(ranges) |->
                            [call |-> "sourceDidFetchIdList", args |-> IdList(ranges[i])]]
                      \o << [call |-> "callback"] >> }
           request(r, asked) ==
               answer(r, IF "EMPTY" \in query.status /\ asked = <<>>
                         THEN << [start |-> 0, count |-> query.windowSize] >>
                         ELSE asked)
           send(r) == request(r, r[2].records \o r[2].ids)
       IN  send(sourceWillFetchQuery(Entered))
    /\ op' = [name |-> "sourceWillFetchQuery"]
    /\ pre' = Entered
    /\ UNCHANGED << server, clientUpdates, refreshes, reads >>

\* The response with its first call made.
Delivered(response) ==
    IF Len(response) = 1 THEN net \ {response}
    ELSE (net \ {response}) \cup {Tail(response)}

\* A delta of a response reaches the query.
SourceDidFetchUpdate(response) ==
    /\ Head(response).call = "sourceDidFetchUpdate"
    /\ query' = sourceDidFetchUpdate(Entered, Head(response).args)
    /\ net' = Delivered(response)
    /\ op' = [name |-> "sourceDidFetchUpdate", update |-> Head(response).args]
    /\ pre' = Entered
    /\ UNCHANGED << server, clientUpdates, refreshes, reads >>

\* The request of a response is complete.
FetchCallback(response) ==
    /\ Head(response).call = "callback"
    /\ query' = fetchCallback(Entered)
    /\ net' = Delivered(response)
    /\ op' = [name |-> "callback"]
    /\ pre' = Entered
    /\ UNCHANGED << server, clientUpdates, refreshes, reads >>

Next ==
    \/ \E update \in ClientUpdateInputs : ClientDidGenerateUpdate(update)
    \/ Refresh
    \/ \E i \in 0..(Len(server[Len(server)]) - 1) : ServerRemoves(i)
    \/ \E i \in 0..Len(server[Len(server)]), id \in Ids : ServerAdds(i, id)
    \/ SourceFetchesQuery
    \/ \E response \in net : SourceDidFetchUpdate(response)
    \/ \E response \in net : FetchCallback(response)

Spec == Init /\ [][Next]_vars

\* ------------------------------------------------------------------------
\* The source answering every refresh from the query's current state
\* ------------------------------------------------------------------------

\* The source sends the request for a refresh of the query; the server's
\* answer is made up when it arrives.
SourceSendsRefresh ==
    /\ query.fetchRequested
    /\ Cardinality(net) < MaxInFlight
    /\ LET send(r) ==
               /\ query' = [r[1] EXCEPT !.fetchRequested = FALSE]
               /\ net' = net \cup
                    { (IF r[2].refresh /\ query.canGetDeltaUpdates
                       THEN << [call |-> "getQueryUpdates"] >> ELSE <<>>)
                      \o << [call |-> "callback"] >> }
       IN  send(sourceWillFetchQuery(Entered))
    /\ op' = [name |-> "sourceWillFetchQuery"]
    /\ pre' = Entered
    /\ UNCHANGED << server, clientUpdates, refreshes, reads >>

\* The answer to a refresh reaches the query: the delta from the state the
\* query is at to the server's latest state.
SourceAnswersRefresh(response) ==
    /\ Head(response).call = "getQueryUpdates"
    /\ query' = sourceDidFetchUpdate(Entered, Delta(query.state, LatestState))
    /\ net' = Delivered(response)
    /\ op' = [name |-> "sourceDidFetchUpdate",
              update |-> Delta(query.state, LatestState)]
    /\ pre' = Entered
    /\ UNCHANGED << server, clientUpdates, refreshes, reads >>

NextLive ==
    \/ \E update \in ClientUpdateInputs : ClientDidGenerateUpdate(update)
    \/ \E i \in 0..(Len(server[Len(server)]) - 1) : ServerRemoves(i)
    \/ \E i \in 0..Len(server[Len(server)]), id \in Ids : ServerAdds(i, id)
    \/ SourceSendsRefresh
    \/ \E response \in net : SourceAnswersRefresh(response)
    \/ \E response \in net : FetchCallback(response)

\* An answer to a refresh is in flight: SourceAnswersRefresh is enabled.
AnswerDue == \E response \in net : Head(response).call = "getQueryUpdates"

\* The source sends every request it has been asked for and every request
\* sent is answered; the client and the server may stop at any time. The
\* weak fairness of SourceAnswersRefresh is written out, AnswerDue being
\* what ENABLED of it comes to.
SpecLive ==
    /\ Init
    /\ [][NextLive]_vars
    /\ WF_vars(SourceSendsRefresh)
    /\ WF_vars(\E response \in net : FetchCallback(response))
    /\ \/ []<>~AnswerDue
       \/ []<><<\E response \in net : SourceAnswersRefresh(response)>>_vars

\* ------------------------------------------------------------------------
\* The query fetched window by window
\* ------------------------------------------------------------------------

\* A new query, which the application has asked to be fetched (refresh() of
\* an EMPTY query); it fetches the windows next to the one asked for, or
\* that one alone. The application refreshes the query or marks it
\* OBSOLETE (setObsolete), and reads an object or fetches a window.
InitWindowed ==
    /\ server = << InitialIds >>
    /\ \E n \in 0..1 :
          query = refresh([NewQuery EXCEPT !.prefetch = n, !.triggerPoint = n], FALSE)
    /\ net = {}
    /\ clientUpdates = 0
    /\ refreshes = 0
    /\ reads = 0
    /\ op = [name |-> "init"]
    /\ pre = query

\* The application reads the object at an index of the list (getObjectAt).
FetchDataForObjectAt(index) ==
    /\ query.length # NULL
    /\ index < query.length
    /\ reads < MaxReads
    /\ query' = fetchDataForObjectAt(Entered, index)
    /\ reads' = reads + 1
    /\ op' = [name |-> "fetchDataForObjectAt", index |-> index]
    /\ pre' = Entered
    /\ UNCHANGED << server, net, clientUpdates, refreshes >>

\* A packet of ids of a response reaches the query.
SourceDidFetchIdList(response) ==
    /\ Head(response).call = "sourceDidFetchIdList"
    /\ query' = sourceDidFetchIdList(Entered, Head(response).args)
    /\ net' = Delivered(response)
    /\ op' = [name |-> "sourceDidFetchIdList", args |-> Head(response).args]
    /\ pre' = Entered
    /\ UNCHANGED << server, clientUpdates, refreshes, reads >>

NextWindowed ==
    \/ Refresh
    \/ \E index \in 0..(NumIds - 1) : FetchDataForObjectAt(index)
    \/ /\ refreshes < MaxRefreshes
       /\ query' = setObsolete(Entered)
       /\ refreshes' = refreshes + 1
       /\ op' = [name |-> "setObsolete"]
       /\ pre' = Entered
       /\ UNCHANGED << server, net, clientUpdates, reads >>
    \/ \E index \in 0..(NumIds \div NewQuery.windowSize),
          fetchRecords \in BOOLEAN, prefetch \in {NULL} \cup (0..1) :
          /\ reads < MaxReads
          /\ query' = fetchWindow(Entered, index, fetchRecords, prefetch)
          /\ reads' = reads + 1
          /\ op' = [ name |-> "fetchWindow", index |-> index,
                     fetchRecords |-> fetchRecords, prefetch |-> prefetch ]
          /\ pre' = Entered
          /\ UNCHANGED << server, net, clientUpdates, refreshes >>
    \/ \E i \in 0..(Len(server[Len(server)]) - 1) : ServerRemoves(i)
    \/ \E i \in 0..Len(server[Len(server)]), id \in Ids : ServerAdds(i, id)
    \/ SourceFetchesQuery
    \/ \E response \in net : SourceDidFetchIdList(response)
    \/ \E response \in net : SourceDidFetchUpdate(response)
    \/ \E response \in net : FetchCallback(response)

SpecWindowed == InitWindowed /\ [][NextWindowed]_vars

\* The calls on the query while records leave the server's list and enter
\* it at its head.
NextReplay ==
    \/ Refresh
    \/ \E index \in 0..(NumIds - 1) : FetchDataForObjectAt(index)
    \/ \E i \in 0..(Len(server[Len(server)]) - 1) : ServerRemoves(i)
    \/ \E id \in Ids : ServerAdds(0, id)
    \/ SourceFetchesQuery
    \/ \E response \in net : SourceDidFetchIdList(response)
    \/ \E response \in net : SourceDidFetchUpdate(response)
    \/ \E response \in net : FetchCallback(response)

\* The query fetched window by window, with the source passing on every
\* delta it receives and completing every request; the application and the
\* server may stop at any time. The weak fairness of SourceDidFetchUpdate
\* is written out, a delta in flight being what ENABLED of it comes to.
SpecReplay ==
    /\ InitWindowed
    /\ [][NextReplay]_vars
    /\ WF_vars(\E response \in net : FetchCallback(response))
    /\ \/ []<>~(\E response \in net :
                    Head(response).call = "sourceDidFetchUpdate")
       \/ []<><<\E response \in net : SourceDidFetchUpdate(response)>>_vars

\* ------------------------------------------------------------------------
\* The update algebra on its own: updates applied in a chain to a list
\* ------------------------------------------------------------------------

\* The sequences of at most n elements of s, in ascending order and without
\* repetition, as index arrays are.
RECURSIVE AscendingSeqs(_, _)
AscendingSeqs(s, n) ==
    IF n = 0 \/ s = {} THEN { <<>> }
    ELSE { <<>> } \cup
         UNION { { <<x>> \o rest : rest \in AscendingSeqs({ y \in s : y > x }, n - 1) } :
                 x \in s }

\* The sequences of exactly n different elements of s.
RECURSIVE DistinctSeqs(_, _)
DistinctSeqs(s, n) ==
    IF n = 0 THEN { <<>> }
    ELSE UNION { { <<x>> \o rest : rest \in DistinctSeqs(s \ {x}, n - 1) } : x \in s }

\* The updates that are valid on a list without gaps: removedIndexes are
\* ascending indexes of the list and removedStoreKeys the keys they hold;
\* addedIndexes are ascending indexes of the list after the update and
\* addedStoreKeys keys that the list does not hold after the removals;
\* total is the length after the update.
ValidUpdates(list) ==
    UNION { UNION {
        { [ removedIndexes     |-> rI,
            removedStoreKeys   |-> [i \in 1..Len(rI) |-> list[rI[i] + 1]],
            addedIndexes       |-> aI,
            addedStoreKeys     |-> aK,
            truncateAtFirstGap |-> FALSE,
            total              |-> Len(list) - Len(rI) + Len(aI),
            upto               |-> Hole ] :
          aK \in DistinctSeqs(
                    StoreKeys \ { list[i] : i \in (1..Len(list)) \ { j + 1 : j \in Range(rI) } },
                    Len(aI)) } :
        aI \in { a \in AscendingSeqs(0..(Len(list) - Len(rI) + MaxChanged - 1), MaxChanged) :
                    \A i \in 1..Len(a) : a[i] <= Len(list) - Len(rI) + i - 1 } } :
        rI \in AscendingSeqs(0..(Len(list) - 1), MaxChanged) }


\* The lists the chains start from: every length up to that of InitialIds.
BaseLists == { KeysOf(SubSeq(InitialIds, 1, n)) : n \in 0..Len(InitialIds) }

InitAlgebra ==
    /\ server = << InitialIds >>
    /\ \E list \in BaseLists : query = LoadedQuery(list)
    /\ net = {}
    /\ clientUpdates = 0
    /\ refreshes = 0
    /\ reads = 0
    /\ op = [name |-> "init", base |-> query.list]
    /\ pre = query

\* An update is applied to the list and joins the chain, as a preemptive
\* update does once normalised (clientDidGenerateUpdate).
ApplyUpdate(update) ==
    /\ Len(query.preemptives) < MaxChain
    /\ query' = [_applyUpdate(Entered, update) EXCEPT !.preemptives = Append(@, update)]
    /\ op' = [name |-> "_applyUpdate", update |-> update, base |-> op.base]
    /\ pre' = Entered
    /\ UNCHANGED << server, net, clientUpdates, refreshes, reads >>

NextAlgebra == \E update \in ValidUpdates(query.list) : ApplyUpdate(update)

SpecAlgebra == InitAlgebra /\ [][NextAlgebra]_vars

\* ------------------------------------------------------------------------
\* mapIndexes on its own: the list and the keys are drawn from bounded sets
\* at the start, and the one step calls mapIndexes on them and records the
\* result in op.  The query is not touched.

MaxListLength == 4
MaxKeys == 2

\* All sequences over s of length at most n.
RECURSIVE SeqsUpTo(_, _)
SeqsUpTo(s, n) ==
    IF n = 0 THEN { <<>> }
    ELSE LET longer(shorter) ==
                 shorter \cup { Append(a[1], a[2]) : a \in shorter \X s }
         IN  longer(SeqsUpTo(s, n - 1))

\* The id lists a query can hold: every entry is a gap or a store key, and no
\* store key is held twice (a record has one place in the list).
SparseLists ==
    { list \in SeqsUpTo(StoreKeys \cup {Hole}, MaxListLength) :
        \A i, j \in 1..Len(list) :
            (i # j /\ list[i] # Hole) => list[i] # list[j] }

\* The keys looked up: any store keys, held by the list or not.
KeyArrays == SeqsUpTo(StoreKeys, MaxKeys)

InitMapIndexes ==
    /\ server = << InitialIds >>
    /\ query = NewQuery
    /\ net = {}
    /\ clientUpdates = 0
    /\ refreshes = 0
    /\ reads = 0
    /\ \E list \in SparseLists, storeKeys \in KeyArrays :
          op = [name |-> "init", list |-> list, storeKeys |-> storeKeys,
                indexes |-> <<>>]
    /\ pre = query

MapIndexes ==
    /\ op.name = "init"
    /\ op' = [op EXCEPT !.name = "mapIndexes",
                        !.indexes = mapIndexes(op.list, op.storeKeys)]
    /\ UNCHANGED << query, server, net, clientUpdates, refreshes, reads, pre >>

NextMapIndexes == MapIndexes

SpecMapIndexes == InitMapIndexes /\ [][NextMapIndexes]_vars

\* ------------------------------------------------------------------------
\* The window table of a query with the default properties: windows of 30
\* records, ids prefetched for one window either side, the adjacent window
\* fetched within 10 records of the edge.  The server's list does not
\* change; slices of it arrive in any order, and the application asks for
\* the object at an index.
\* ------------------------------------------------------------------------

DefaultWindowSize == 30
DefaultTriggerPoint == 10
DefaultPrefetch == 1
MaxTotal == 90

\* The slices in flight start at multiples of SliceStep and hold one to
\* three times SliceStep ids, or what is left of the list; the indexes asked
\* for are the multiples of IndexStep.
SliceStep == 15
IndexStep == 5

\* The lengths of the server's list: with and without a partial last window.
Totals ==
    { t \in (DefaultWindowSize + 1)..MaxTotal :
        t % DefaultWindowSize \in { 0, 1, SliceStep + 1 } }

DefaultQuery ==
    [ NewQuery EXCEPT !.windowSize = DefaultWindowSize,
                      !.triggerPoint = DefaultTriggerPoint,
                      !.prefetch = DefaultPrefetch ]

\* The responses that hold one slice of the server's list.
SliceResponses ==
    { << [ call |-> "sourceDidFetchIdList",
           args |-> IdList([start |-> SliceStep * n, count |-> SliceStep * m]) ] >> :
        n \in 0..((Len(ServerList(LatestState)) - 1) \div SliceStep), m \in 1..3 }

InitDefaults ==
    /\ \E total \in Totals : server = << [i \in 1..total |-> i] >>
    /\ query = DefaultQuery
    /\ net \in { responses \in SUBSET SliceResponses :
                    Cardinality(responses) <= MaxInFlight }
    /\ clientUpdates = 0
    /\ refreshes = 0
    /\ reads = 0
    /\ op = [name |-> "init"]
    /\ pre = query

\* The query's fetchDataForObjectAt is called with an index, whether or not
\* the length of the list is known yet.
CallFetchDataForObjectAt(index) ==
    /\ reads < MaxReads
    /\ index < Len(ServerList(LatestState))
    /\ query' = fetchDataForObjectAt(Entered, index)
    /\ reads' = reads + 1
    /\ op' = [name |-> "fetchDataForObjectAt", index |-> index]
    /\ pre' = Entered
    /\ UNCHANGED << server, net, clientUpdates, refreshes >>

NextDefaults ==
    \/ \E n \in 0..(MaxTotal \div IndexStep) : CallFetchDataForObjectAt(IndexStep * n)
    \/ \E response \in net : SourceDidFetchIdList(response)

SpecDefaults == InitDefaults /\ [][NextDefaults]_vars

\* ------------------------------------------------------------------------
\* Deltas that cover the list only up to a record: the server's answer to a
\* refresh carries an upto id, a record of its list, and tells of the
\* additions up to that record only.  The query starts with its whole list
\* fetched, or with the first window of it.
\* ------------------------------------------------------------------------

\* The delta from oldState to newState that covers the list up to the id
\* upto: the pairs added after it are left out.
DeltaUpto(oldState, newState, upto) ==
    [ Delta(oldState, newState) EXCEPT
        !.upto = upto,
        !.added = SelectSeq(@, LAMBDA pair :
                      pair[1] <= IndexOf(ServerList(newState), upto)) ]

\* The ids the server may give as upto: the records of its list.
UptoIds ==
    IF Len(ServerList(LatestState)) = 0 THEN {Hole}
    ELSE Range(ServerList(LatestState))

\* A query of which the first window has been fetched.
PartlyLoadedQuery ==
    [ sourceDidFetchIdList(NewQuery,
          [ state |-> 1, sort |-> NewQuery.sort, filter |-> NewQuery.filter,
            position |-> 0,
            idList |-> SubSeq(InitialIds, 1, NewQuery.windowSize),
            total |-> Len(InitialIds) ])
      EXCEPT !.events = <<>> ]

InitUpto ==
    /\ server = << InitialIds >>
    /\ query \in { LoadedQuery(KeysOf(InitialIds)), PartlyLoadedQuery }
    /\ net = {}
    /\ clientUpdates = 0
    /\ refreshes = 0
    /\ reads = 0
    /\ op = [name |-> "init"]
    /\ pre = query

\* The source sends the request for the query, as in SourceFetchesQuery, and
\* the server answers a refresh with a delta up to the id upto.
SourceFetchesQueryUpto(upto) ==
    /\ query.fetchRequested
    /\ Cardinality(net) < MaxInFlight
    /\ LET answer(r, ranges) ==
               /\ query' = [r[1] EXCEPT !.fetchRequested = FALSE]
               /\ net' = net \cup
                    { (IF r[2].refresh /\ query.canGetDeltaUpdates /\ query.state # 0
                       THEN << [call |-> "sourceDidFetchUpdate",
                                args |-> DeltaUpto(query.state, LatestState, upto)] >>
                       ELSE <<>>)
                      \o [i \in 1..Len(ranges) |->
                            [call |-> "sourceDidFetchIdList", args |-> IdList(ranges[i])]]
                      \o << [call |-> "callback"] >> }
           request(r, asked) ==
               answer(r, IF "EMPTY" \in query.status /\ asked = <<>>
                         THEN << [start |-> 0, count |-> query.windowSize] >>
                         ELSE asked)
           send(r) == request(r, r[2].records \o r[2].ids)
       IN  send(sourceWillFetchQuery(Entered))
    /\ op' = [name |-> "sourceWillFetchQuery"]
    /\ pre' = Entered
    /\ UNCHANGED << server, clientUpdates, refreshes, reads >>

NextUpto ==
    \/ \E update \in ClientUpdateInputs : ClientDidGenerateUpdate(update)
    \/ Refresh
    \/ \E i \in 0..(Len(server[Len(server)]) - 1) : ServerRemoves(i)
    \/ \E upto \in UptoIds : SourceFetchesQueryUpto(upto)
    \/ \E response \in net : SourceDidFetchIdList(response)
    \/ \E response \in net : SourceDidFetchUpdate(response)
    \/ \E response \in net : FetchCallback(response)

SpecUpto == InitUpto /\ [][NextUpto]_vars

\* ------------------------------------------------------------------------
\* The query whose sort or filter changes while packets are in flight
\* ------------------------------------------------------------------------

\* The application sets the sort or the filter of the query: reset observes
\* both, and is called with the changed key, so that RemoteQuery#reset
\* fetches the query again. The packets in flight keep the sort and filter
\* they were asked with.
SortOrFilterChanges(key) ==
    /\ query.sort = NewQuery.sort
    /\ query.filter = NewQuery.filter
    /\ LET other == [sort |-> "otherSort", filter |-> "otherFilter"]
       IN  query' = fetchQuery(reset([Entered EXCEPT ![key] = other[key]]))
    /\ op' = [name |-> "reset", key |-> key]
    /\ pre' = Entered
    /\ UNCHANGED << server, net, clientUpdates, refreshes, reads >>

\* The query has its whole list, or is new and the application has asked
\* for it to be fetched.
InitSort ==
    /\ server = << InitialIds >>
    /\ query \in {LoadedQuery(KeysOf(InitialIds)), refresh(NewQuery, FALSE)}
    /\ net = {}
    /\ clientUpdates = 0
    /\ refreshes = 0
    /\ reads = 0
    /\ op = [name |-> "init"]
    /\ pre = query

\* The client removes a record from the list ahead of the server, once.
ClientRemoves(update) ==
    /\ clientUpdates = 0
    /\ update.added = <<>>
    /\ ClientDidGenerateUpdate(update)

NextSort ==
    \/ \E key \in {"sort", "filter"} : SortOrFilterChanges(key)
    \/ \E update \in ClientUpdateInputs : ClientRemoves(update)
    \/ Refresh
    \/ \E i \in 0..(Len(server[Len(server)]) - 1) : ServerRemoves(i)
    \/ SourceFetchesQuery
    \/ \E response \in net : SourceDidFetchIdList(response)
    \/ \E response \in net : SourceDidFetchUpdate(response)
    \/ \E response \in net : FetchCallback(response)

SpecSort == InitSort /\ [][NextSort]_vars

\* ------------------------------------------------------------------------
\* The query fetched window by window, with records of the list in the
\* store's memory
\* ------------------------------------------------------------------------

\* A new query, which the application has asked to be fetched. The store
\* has records in memory when the query is made: all those of the server's
\* list, or the first of them.
InitRecords ==
    /\ server = << InitialIds >>
    /\ \E records \in { Range(KeysOf(InitialIds)), {toStoreKey(InitialIds[1])} } :
          query = refresh([NewQuery EXCEPT !.loaded = records], FALSE)
    /\ net = {}
    /\ clientUpdates = 0
    /\ refreshes = 0
    /\ reads = 0
    /\ op = [name |-> "init"]
    /\ pre = query

NextRecords ==
    \/ \E update \in ClientUpdateInputs : ClientRemoves(update)
    \/ Refresh
    \/ \E index \in 0..(NumIds - 1) : FetchDataForObjectAt(index)
    \/ \E i \in 0..(Len(server[Len(server)]) - 1) : ServerRemoves(i)
    \/ SourceFetchesQuery
    \/ \E response \in net : SourceDidFetchIdList(response)
    \/ \E response \in net : SourceDidFetchUpdate(response)
    \/ \E response \in net : FetchCallback(response)

SpecRecords == InitRecords /\ [][NextRecords]_vars

\* ------------------------------------------------------------------------
\* The client changing a list it holds in part, with records it does not
\* hold among those it removes
\* ------------------------------------------------------------------------

\* A query of which the last window has been fetched: the list starts with
\* a gap.
LastWindowLoadedQuery ==
    [ sourceDidFetchIdList(NewQuery,
          [ state |-> 1, sort |-> NewQuery.sort, filter |-> NewQuery.filter,
            position |-> NewQuery.windowSize,
            idList |-> SubSeq(InitialIds, NewQuery.windowSize + 1, Len(InitialIds)),
            total |-> Len(InitialIds) ])
      EXCEPT !.events = <<>> ]

\* The updates the client may generate whatever the list holds: the removal
\* of up to MaxRemoved records, in the list or not, with or without the
\* insertion, at the head or at the end, of a record that is not in the
\* list.
AnyClientUpdates ==
    LET keys == Range(query.list) \ {Hole}
        removals == { r \in SeqsUpTo(StoreKeys, MaxRemoved) :
                        \A i, j \in 1..Len(r) : i # j => r[i] # r[j] }
        additions == { <<>> } \cup
                     { << <<i, k>> >> : i \in {0, Len(query.list)},
                                       k \in StoreKeys \ keys }
    IN  { [removed |-> r, added |-> a, total |-> NULL, upto |-> Hole] :
            r \in removals, a \in additions } \
        { [removed |-> <<>>, added |-> <<>>, total |-> NULL, upto |-> Hole] }

InitClient ==
    /\ server = << InitialIds >>
    /\ query \in { LoadedQuery(KeysOf(InitialIds)), PartlyLoadedQuery,
                   LastWindowLoadedQuery }
    /\ net = {}
    /\ clientUpdates = 0
    /\ refreshes = 0
    /\ reads = 0
    /\ op = [name |-> "init"]
    /\ pre = query

NextClient ==
    \/ \E update \in AnyClientUpdates : ClientDidGenerateUpdate(update)
    \/ \E i \in { 0, Len(server[Len(server)]) - 1 } : ServerRemoves(i)
    \/ SourceFetchesQuery
    \/ \E response \in net : SourceDidFetchUpdate(response)
    \/ \E response \in net : FetchCallback(response)

SpecClient == InitClient /\ [][NextClient]_vars

\* ------------------------------------------------------------------------
\* The application looking up the store keys of a range and the index of a
\* store key
\* ------------------------------------------------------------------------

\* list.slice( start, end ).
Slice(a, start, end) ==
    [j \in 1..Max(0, Min(end, Len(a)) - start) |-> a[start + j]]

\* list.indexOf( v, from ): the first index from `from` on holding v, or -1.
IndexOfFrom(a, v, from) ==
    IF \E i \in (from + 1)..Len(a) : a[i] = v
    THEN (CHOOSE i \in (from + 1)..Len(a) :
            a[i] = v /\ \A j \in (from + 1)..(i - 1) : a[j] # v) - 1
    ELSE NotFound

\* The windows of a range that are told ready whatever their flags.
windowIsNotReadyNever(q, i) == FALSE

\* !( windows[i] & WINDOW_READY ).
windowIsNotReady(q, i) == "READY" \notin windowStatus(q.windows, i)

\* The loop of getStoreKeysForObjectsInRange over the windows i..l-1:
\* << the query, isComplete >>.
RECURSIVE fetchWindowsOfRange(_, _, _, _)
fetchWindowsOfRange(q, isComplete, i, l) ==
    IF i >= l THEN << q, isComplete >>
    ELSE IF windowIsNotReady(q, i)
    THEN fetchWindowsOfRange(
             fetchWindow([q EXCEPT !.isAnExplicitIdFetch = TRUE], i, FALSE, 0),
             FALSE, i + 1, l)
    ELSE fetchWindowsOfRange(q, isComplete, i + 1, l)

\* getStoreKeysForObjectsInRange( start, end, callback ): the query, the
\* value returned and the calls of the callback made before it returns.
getStoreKeysForObjectsInRange(q, start0, end0) ==
    LET result(r, start, end) ==
            IF r[2]
            THEN [ query |-> r[1], returned |-> FALSE,
                   callback |-> << [ keys |-> Slice(r[1].list, start, end),
                                     start |-> start, end |-> end ] >> ]
            ELSE [ query |-> [ r[1] EXCEPT !.awaitingIdFetch =
                                  Append(@, [start |-> start, end |-> end]) ],
                   returned |-> TRUE, callback |-> <<>> ]
        clamped(start, end) ==
            result(fetchWindowsOfRange(q, TRUE, start \div q.windowSize,
                                       ((end - 1) \div q.windowSize) + 1),
                   start, end)
    IN  IF q.length # NULL
        THEN clamped(Max(start0, 0), Min(end0, q.length))
        ELSE result(<< q, FALSE >>, start0, end0)

\* store.getIdFromStoreKey( storeKey ).
getIdFromStoreKey(storeKey) == storeKey - StoreKeyBase

\* indexOfStoreKey( storeKey, from, callback ): the query, the value
\* returned and the calls of the callback made before it returns; callback
\* tells whether one is given.
indexOfStoreKey(q, storeKey, from, callback) ==
    LET index == IndexOfFrom(q.list, storeKey, from)
    IN  IF ~callback
        THEN [ query |-> q, returned |-> index, callback |-> <<>> ]
        ELSE IF index >= 0 \/ allIdsAreLoaded(q)
        THEN [ query |-> q, returned |-> index, callback |-> << index >> ]
        ELSE [ query |-> fetchQuery(
                   [ q EXCEPT !.indexOfRequested =
                       Append(@, [ id |-> getIdFromStoreKey(storeKey),
                                   storeKey |-> storeKey, from |-> from ]) ]),
               returned |-> index, callback |-> <<>> ]

\* The application asks for the store keys of a range.
GetStoreKeysForObjectsInRange(start, end) ==
    /\ reads < MaxReads
    /\ LET r == getStoreKeysForObjectsInRange(Entered, start, end)
       IN  /\ query' = r.query
           /\ op' = [ name |-> "getStoreKeysForObjectsInRange",
                      start |-> start, end |-> end,
                      returned |-> r.returned, callback |-> r.callback ]
    /\ reads' = reads + 1
    /\ pre' = Entered
    /\ UNCHANGED << server, net, clientUpdates, refreshes >>

\* The application asks for the index of a store key.
IndexOfStoreKey(storeKey, from, callback) ==
    /\ reads < MaxReads
    /\ LET r == indexOfStoreKey(Entered, storeKey, from, callback)
       IN  /\ query' = r.query
           /\ op' = [ name |-> "indexOfStoreKey", storeKey |-> storeKey,
                      from |-> from, given |-> callback,
                      returned |-> r.returned, callback |-> r.callback ]
    /\ reads' = reads + 1
    /\ pre' = Entered
    /\ UNCHANGED << server, net, clientUpdates, refreshes >>

NextLookup ==
    \/ \E start \in -1..NumIds, end \in 0..(NumIds + 1) :
          GetStoreKeysForObjectsInRange(start, end)
    \/ \E storeKey \in StoreKeys, from \in 0..1, callback \in BOOLEAN :
          IndexOfStoreKey(storeKey, from, callback)
    \/ Refresh
    \/ \E i \in 0..(Len(server[Len(server)]) - 1) : ServerRemoves(i)
    \/ SourceFetchesQuery
    \/ \E response \in net : SourceDidFetchIdList(response)
    \/ \E response \in net : SourceDidFetchUpdate(response)
    \/ \E response \in net : FetchCallback(response)

SpecLookup == InitWindowed /\ [][NextLookup]_vars

\* ------------------------------------------------------------------------
\* Properties
\* ------------------------------------------------------------------------

\* The list an update gives when applied to a list (apply of the update
\* algebra).
Applied(list, update) == spliceUpdate(list, Len(list), update)[1]

\* The list the first n updates of a queue give, applied in queue order.
RECURSIVE AppliedAll(_, _, _)
AppliedAll(list, updates, n) ==
    IF n = 0 THEN list
    ELSE Applied(AppliedAll(list, updates, n - 1), updates[n])

\* The list of store keys of the server at the state token of a query.
ConfirmedList(q) == KeysOf(ServerList(q.state))

\* The query:updated events fired by the last call.
UpdatedEvents == { i \in 1..Len(query.events) : query.events[i].type = "query:updated" }

\* C1: on a fully loaded list, after any sequence of clientDidGenerateUpdate
\* and sourceDidFetchUpdate calls, the queued preemptive updates applied in
\* queue order to the server's list at the query's state token give exactly
\* the list the query holds.
C1_PreemptiveQueueInvariant ==
    AppliedAll(ConfirmedList(query), query.preemptives, Len(query.preemptives))
        = query.list

\* C1 witness: a delta has confirmed the first of two queued preemptive
\* updates and moved the query to its new state; the second is still queued.
C1_Witness ==
    /\ op.name = "sourceDidFetchUpdate"
    /\ Len(pre.preemptives) = 2
    /\ Len(query.preemptives) = 1
    /\ query.state = op.update.newState
    /\ query.state # pre.state
    /\ query.list # ConfirmedList(query)

\* The argument of the last call of sourceDidFetchUpdate with its record
\* ids mapped to store keys.
MappedUpdate ==
    [ op.update EXCEPT
        !.removed = KeysOf(op.update.removed),
        !.added = [i \in 1..Len(op.update.added) |->
                      <<op.update.added[i][1], toStoreKey(op.update.added[i][2])>>],
        !.upto = toStoreKey(op.update.upto) ]

\* The last call was sourceDidFetchUpdate with a delta from the state the
\* query was at to another state, while preemptive updates were queued.
ReconciledDelta ==
    /\ op.name = "sourceDidFetchUpdate"
    /\ op.update.oldState = pre.state
    /\ op.update.newState # pre.state
    /\ op.update.sort = pre.sort
    /\ Len(pre.preemptives) # 0

\* The normalised form of that delta, and the compositions of the prefixes
\* of the queue it was compared with.
NormalisedDelta == normaliseServerUpdate(pre, MappedUpdate)
ComposedQueue == composedPreemptives(pre.preemptives)
IsEmptyUpdate(u) == Len(u.removedStoreKeys) = 0 /\ Len(u.addedStoreKeys) = 0

\* The list before the speculation: the queued preemptives undone.
PreSpeculationList ==
    Applied(pre.list, invertUpdate(ComposedQueue[Len(ComposedQueue)]))

\* The pre-speculation list with the delta of the server applied.
PreSpeculationListWithDelta ==
    Applied(PreSpeculationList,
        _normaliseUpdate([pre EXCEPT !.list = PreSpeculationList,
                                     !.length = Len(PreSpeculationList)],
                         MappedUpdate))

\* The normalised delta is equal to no composition of a prefix of the queue.
Diverged ==
    /\ ReconciledDelta
    /\ \A l \in 1..Len(ComposedQueue) : ~updateIsEqual(NormalisedDelta, ComposedQueue[l])

\* The delta changes nothing and the client has made an update since the
\* refresh was sent.
NothingChangedWhileDirty ==
    IsEmptyUpdate(NormalisedDelta) /\ "DIRTY" \in pre.status

\* C2 as stated: a delta from the current state whose normalised form
\* matches no prefix composition of the queue empties the queue and leaves
\* the pre-speculation list with the delta applied.
C2_Original ==
    Diverged =>
        /\ query.preemptives = <<>>
        /\ query.list = PreSpeculationListWithDelta

\* C2: a delta from the current state whose normalised form matches no
\* prefix composition of the queue empties the queue and leaves the
\* pre-speculation list with the delta applied, unless the normalised delta
\* is empty and the query is DIRTY: then the queue and the list are kept.
C2_DivergedSpeculation ==
    /\ Diverged /\ ~NothingChangedWhileDirty =>
          /\ query.preemptives = <<>>
          /\ query.list = PreSpeculationListWithDelta
    /\ Diverged /\ NothingChangedWhileDirty =>
          /\ query.preemptives = pre.preemptives
          /\ query.list = pre.list

\* C2 witness: the client has removed the second record of three, the
\* server the third: the second record is back and the third gone.
C2_Witness ==
    /\ Diverged
    /\ pre.list = << 11, 13 >>
    /\ op.update.removed = << 3 >>
    /\ query.list = << 11, 12 >>
    /\ query.preemptives = <<>>

\* The normalised delta is equal to the composition of all the queue.
ConfirmedAll ==
    /\ ReconciledDelta
    /\ updateIsEqual(NormalisedDelta, ComposedQueue[Len(ComposedQueue)])

\* C3 as stated: a delta from the current state whose normalised form is
\* the composition of all queued preemptives leaves the list unmodified,
\* fires no query:updated event, sets the state token to update.newState and
\* empties the queue.
C3_Original ==
    ConfirmedAll =>
        /\ query.list = pre.list
        /\ UpdatedEvents = {}
        /\ query.state = op.update.newState
        /\ query.preemptives = <<>>

\* C3: a delta from the current state whose normalised form is the
\* composition of all queued preemptives leaves the list unmodified and sets
\* the state token to update.newState; if that composition is not empty, no
\* query:updated event is fired and the queue becomes empty.
C3_ConfirmedSpeculation ==
    /\ ConfirmedAll =>
          /\ query.list = pre.list
          /\ query.state = op.update.newState
    /\ ConfirmedAll /\ ~IsEmptyUpdate(NormalisedDelta) =>
          /\ UpdatedEvents = {}
          /\ query.preemptives = <<>>

\* C3 witness: the client has removed the second record of three and the
\* delta of the server removes it too.
C3_Witness ==
    /\ ConfirmedAll
    /\ pre.list = << 11, 13 >>
    /\ op.update.removed = << 2 >>
    /\ query.list = << 11, 13 >>
    /\ query.state = 2
    /\ query.preemptives = <<>>
    /\ UpdatedEvents = {}

\* C4: sourceDidFetchUpdate changes the state token only when
\* update.oldState is the current state token, and then to update.newState;
\* a delta with another oldState is not applied: the list stays as it was or,
\* the preemptives being undone, goes back to the pre-speculation list.
C4_StateTokenGating ==
    op.name = "sourceDidFetchUpdate" =>
        /\ query.state # pre.state =>
              op.update.oldState = pre.state /\ query.state = op.update.newState
        /\ op.update.oldState # pre.state =>
              /\ query.state = pre.state
              /\ query.list \in
                    { pre.list,
                      IF Len(pre.preemptives) # 0 THEN PreSpeculationList ELSE pre.list }

\* C4 witness: a delta from the current state has been applied: the state
\* token and the list have changed.
C4_Witness ==
    /\ op.name = "sourceDidFetchUpdate"
    /\ op.update.oldState = pre.state
    /\ query.state = op.update.newState
    /\ query.state # pre.state
    /\ query.list # pre.list

\* The update is one the query has got already, preemptives are queued and
\* the query is not DIRTY.
AlreadyGot ==
    /\ op.name = "sourceDidFetchUpdate"
    /\ op.update.newState = pre.state
    /\ Len(pre.preemptives) # 0
    /\ "DIRTY" \notin pre.status

\* C7 as stated: an update whose newState is the current state, with
\* preemptives queued and the query not DIRTY, empties the queue and leaves
\* list and length unchanged.
C7_Original ==
    AlreadyGot =>
        /\ query.preemptives = <<>>
        /\ query.list = pre.list
        /\ query.length = pre.length

\* C7: an update whose newState is the current state, with preemptives
\* queued and the query not DIRTY, empties the queue and undoes the queued
\* preemptives: list and length go back to the pre-speculation list; the
\* state token is unchanged.
C7_AlreadyGotUpdate ==
    AlreadyGot =>
        /\ query.preemptives = <<>>
        /\ query.list = PreSpeculationList
        /\ query.length = Len(PreSpeculationList)
        /\ query.state = pre.state

\* C7 witness: the preemptives have been undone and the list has changed.
C7_Witness ==
    /\ AlreadyGot
    /\ query.preemptives = <<>>
    /\ query.list # pre.list

\* The delta is neither from the current state nor to it.
Stale ==
    /\ op.name = "sourceDidFetchUpdate"
    /\ op.update.oldState # pre.state
    /\ op.update.newState # pre.state

\* C8: an update whose oldState and newState both differ from the current
\* state marks the query OBSOLETE and leaves list, length, state token,
\* window table and preemptive queue unchanged.
C8_StaleDelta ==
    Stale =>
        /\ "OBSOLETE" \in query.status
        /\ query.list = pre.list
        /\ query.length = pre.length
        /\ query.state = pre.state
        /\ query.windows = pre.windows
        /\ query.preemptives = pre.preemptives

\* C8 witness: a delta that adds a record has arrived stale, while a
\* preemptive update was queued.
C8_Witness ==
    /\ Stale
    /\ Len(op.update.added) # 0
    /\ Len(query.preemptives) # 0
    /\ "OBSOLETE" \in query.status

\* C9 as stated: after a delta has confirmed the queued preemptives, DIRTY
\* is clear.
C9_Original ==
    ConfirmedAll => "DIRTY" \notin query.status

\* C9: sourceDidFetchUpdate leaves DIRTY as it was when it reconciles a
\* delta that confirms the queued preemptives: DIRTY is clear after it if no
\* client update has been made since the refresh was sent, and DIRTY, when
\* set, has a refresh requested from the source.
C9_DirtyFlag ==
    /\ ConfirmedAll => ("DIRTY" \in query.status <=> "DIRTY" \in pre.status)
    /\ "DIRTY" \in query.status => query.refresh /\ query.fetchRequested

\* C9 witness: a delta has confirmed a preemptive update that is not empty
\* and DIRTY is clear.
C9_Witness ==
    /\ ConfirmedAll
    /\ ~IsEmptyUpdate(NormalisedDelta)
    /\ "DIRTY" \notin query.status
    /\ query.preemptives = <<>>

\* C10: for a list L, an update p1 valid on L and an update p2 valid on the
\* result of p1, composeUpdates(p1, p2) applied to L gives the list that p1
\* applied to L and then p2 applied to the result give.
C10_CompositionLaw ==
    Len(query.preemptives) = 2 =>
        Applied(op.base, composeUpdates(query.preemptives[1], query.preemptives[2]))
            = Applied(Applied(op.base, query.preemptives[1]), query.preemptives[2])

\* C10 witness: two updates that each remove and add have been applied, the
\* second removing what the first has added.
C10_Witness ==
    /\ Len(query.preemptives) = 2
    /\ Len(op.base) = 3
    /\ Len(query.preemptives[1].removedIndexes) # 0
    /\ Len(query.preemptives[1].addedIndexes) # 0
    /\ Len(query.preemptives[2].addedIndexes) # 0
    /\ \E i \in 1..Len(query.preemptives[2].removedIndexes) :
          query.preemptives[2].removedStoreKeys[i]
              \in Range(query.preemptives[1].addedStoreKeys)
    /\ query.list = Applied(op.base,
          composeUpdates(query.preemptives[1], query.preemptives[2]))

C15_NoWriteFromOtherState ==
    /\ ( /\ op.name = "sourceDidFetchIdList"
         /\ pre.canGetDeltaUpdates
         /\ pre.state # 0 /\ op.args.state # pre.state ) =>
            /\ query.waitingPackets = Append(pre.waitingPackets, op.args)
            /\ "OBSOLETE" \in query.status
            /\ query.fetchRequested
            /\ query.list = pre.list /\ query.length = pre.length
            /\ query.state = pre.state /\ query.windows = pre.windows
    /\ ( op.name = "sourceDidFetchUpdate" /\ pre.canGetDeltaUpdates ) =>
            LET same(without) ==
                    /\ query.list = without.list /\ query.length = without.length
                    /\ query.state = without.state
                    /\ query.windows = without.windows
            IN  same(sourceDidFetchUpdate(
                    [pre EXCEPT !.waitingPackets =
                        SelectSeq(@, LAMBDA packet : packet.state = query.state)],
                    op.update))

\* A packet of a later state than the query's arrives at a list that holds
\* ids, and waits.
C15_Witness ==
    /\ op.name = "sourceDidFetchIdList"
    /\ pre.state # 0 /\ op.args.state > pre.state
    /\ \E i \in 1..Len(pre.list) : pre.list[i] # Hole
    /\ Len(op.args.idList) > 0
    /\ query.waitingPackets = << op.args >>
    /\ query.list = pre.list

\* C14 as stated: after sourceDidFetchIdList has written a slice, every
\* window present in the list without gaps up to total has ID_READY set, and
\* every window the slice does not overlap keeps its status.
C14_Original ==
    LET last(w) == Min((w + 1) * query.windowSize, query.length) - 1
        present(w) ==
            \A i \in (w * query.windowSize)..last(w) : Get(query.list, i) # Hole
        overlapped(w) ==
            /\ op.args.position < (w + 1) * query.windowSize
            /\ op.args.position + Len(op.args.idList) > w * query.windowSize
    IN  op.name = "sourceDidFetchIdList" =>
            \A w \in 0..(windowCount(query) - 1) :
                /\ present(w) => "READY" \in windowStatus(query.windows, w)
                /\ ~overlapped(w) =>
                        windowStatus(query.windows, w) = windowStatus(pre.windows, w)

\* C14: after sourceDidFetchIdList has written a slice (matching state, no
\* preemptives), every window that is present in the list without gaps up to
\* total and whose last index the slice holds has ID_READY set; a window
\* gains no other flag and loses none, gains ID_READY only if it is present
\* without gaps, and keeps its status if the slice does not overlap it.
C14_ReadyWindows ==
    LET last(w) == Min((w + 1) * query.windowSize, query.length) - 1
        present(w) ==
            \A i \in (w * query.windowSize)..last(w) : Get(query.list, i) # Hole
        overlapped(w) ==
            /\ op.args.position < (w + 1) * query.windowSize
            /\ op.args.position + Len(op.args.idList) > w * query.windowSize
        reachesEnd(w) ==
            /\ op.args.position <= last(w)
            /\ op.args.position + Len(op.args.idList) > last(w)
    IN  op.name = "sourceDidFetchIdList" =>
            \A w \in 0..(windowCount(query) - 1) :
                /\ (present(w) /\ reachesEnd(w)) =>
                        "READY" \in windowStatus(query.windows, w)
                /\ windowStatus(query.windows, w) \in
                        { windowStatus(pre.windows, w),
                          windowStatus(pre.windows, w) \cup {"READY"} }
                /\ windowStatus(query.windows, w) # windowStatus(pre.windows, w) =>
                        present(w)
                /\ ~overlapped(w) =>
                        windowStatus(query.windows, w) = windowStatus(pre.windows, w)

\* The example: 30 ids at position 30 of 90 arrive at the empty list;
\* window 1 is ready and windows 0 and 2 are as they were.
C14_Witness ==
    /\ op.name = "sourceDidFetchIdList"
    /\ pre.list = <<>> /\ pre.length = NULL /\ pre.windows = <<>>
    /\ op.args.position = 30 /\ Len(op.args.idList) = 30 /\ op.args.total = 90
    /\ query.windows = << WINDOW_EMPTY, {"READY"} >>
    /\ query.length = 90

\* C13: with windowSize 30, prefetch 1 and no window requested yet,
\* fetchDataForObjectAt( 45 ) on a list whose length is known to be at least
\* 61 marks windows 0, 1 and 2 as requested, window 1 alone with its records
\* requested, and asks the source to fetch; on a list of unknown length it
\* marks no window and asks for nothing.
C13_RequestedWindows ==
    ( /\ op.name = "fetchDataForObjectAt" /\ op.index = 45
      /\ pre.windowSize = 30 /\ pre.prefetch = 1
      /\ \A w \in 1..Len(pre.windows) : pre.windows[w] = WINDOW_EMPTY ) =>
        IF pre.length = NULL
        THEN query.windows = pre.windows /\ query.fetchRequested = pre.fetchRequested
        ELSE pre.length >= 61 =>
                /\ query.windows = << {"REQUESTED"},
                                      {"REQUESTED", "RECORDS_REQUESTED"},
                                      {"REQUESTED"} >>
                /\ query.fetchRequested

\* The length is known (a slice short of a window has arrived) and the
\* three windows are marked.
C13_Witness ==
    /\ op.name = "fetchDataForObjectAt" /\ op.index = 45
    /\ pre.length = 61 /\ pre.windows = <<>>
    /\ query.windows = << {"REQUESTED"}, {"REQUESTED", "RECORDS_REQUESTED"},
                          {"REQUESTED"} >>

\* C13 as stated: on a list of unknown length the three windows are marked.
C13_Original ==
    ( /\ op.name = "fetchDataForObjectAt" /\ op.index = 45
      /\ pre.windowSize = 30 /\ pre.prefetch = 1
      /\ pre.length = NULL ) =>
        /\ "REQUESTED" \in windowStatus(query.windows, 0)
        /\ "REQUESTED" \in windowStatus(query.windows, 1)
        /\ "REQUESTED" \in windowStatus(query.windows, 2)
        /\ "RECORDS_REQUESTED" \in windowStatus(query.windows, 1)
        /\ "RECORDS_REQUESTED" \notin windowStatus(query.windows, 0)
        /\ "RECORDS_REQUESTED" \notin windowStatus(query.windows, 2)

C6_ListInvariant ==
    Len(query.preemptives) = 0 =>
        \A i \in 1..Len(query.list) :
            query.list[i] # Hole =>
                /\ query.state # 0
                /\ i <= Len(ServerList(query.state))
                /\ query.list[i] = toStoreKey(ServerList(query.state)[i])

\* C6 witness: a delta has removed a record that was not in the list the
\* query held, which had entries and a gap; entries are left.
C6_Witness ==
    /\ op.name = "sourceDidFetchUpdate"
    /\ \E i \in 1..Len(pre.list) : pre.list[i] = Hole
    /\ op.update.oldState = pre.state
    /\ query.state = op.update.newState
    /\ \E i \in 1..Len(op.update.removed) :
          toStoreKey(op.update.removed[i]) \notin Range(pre.list)
    /\ \E i \in 1..Len(query.list) : query.list[i] # Hole

\* The preemptive queue is empty and every entry of the list is the store
\* key of the record at the same index of the server's latest list.
Agreed ==
    /\ Len(query.preemptives) = 0
    /\ \A i \in 1..Len(query.list) :
          query.list[i] # Hole =>
              /\ i <= Len(ServerList(LatestState))
              /\ query.list[i] = toStoreKey(ServerList(LatestState)[i])

C20_RecordsReadyImpliesReady ==
    \A w \in 0..(Len(query.windows) - 1) :
        "RECORDS_READY" \in windowStatus(query.windows, w) =>
            "READY" \in windowStatus(query.windows, w)

\* C20 witness: the application has read an object of a window whose ids
\* were loaded and whose records the store holds, after a delta had been
\* applied to the list, and the window, which was not RECORDS_READY, is.
C20_Witness ==
    /\ op.name = "fetchDataForObjectAt"
    /\ query.state > 1
    /\ \E w \in 0..(Len(query.windows) - 1) :
          /\ "RECORDS_READY" \in windowStatus(query.windows, w)
          /\ "READY" \in windowStatus(query.windows, w)
          /\ "RECORDS_READY" \notin windowStatus(pre.windows, w)

C22_ClientUpdateApplied ==
    op.name = "clientDidGenerateUpdate" =>
        LET normalised == [ _normaliseUpdate(pre, op.update)
                            EXCEPT !.truncateAtFirstGap = FALSE ]
            held == Range(pre.list) \ {Hole}
        IN  /\ query.list = Applied(pre.list, normalised)
            /\ query.preemptives = Append(pre.preemptives, normalised)
            /\ "DIRTY" \in query.status
            /\ query.fetchRequested
            /\ query.state = pre.state
            /\ Range(normalised.removedStoreKeys) = Range(op.update.removed) \cap held
            /\ held \ Range(op.update.removed) \subseteq Range(query.list)
            /\ Range(query.list) \ {Hole} =
                   (held \ Range(op.update.removed))
                       \cup { op.update.added[i][2] : i \in 1..Len(op.update.added) }

\* C22 witness: on a list that starts with a gap and has a preemptive
\* queued, the client has removed a record the list holds and one it does
\* not; the list keeps the gap and what it held after the record removed.
C22_Witness ==
    /\ op.name = "clientDidGenerateUpdate"
    /\ Len(pre.preemptives) = 1 /\ Len(query.preemptives) = 2
    /\ Len(pre.list) > 1 /\ pre.list[1] = Hole
    /\ \E i \in 1..Len(op.update.removed) : op.update.removed[i] \in Range(pre.list)
    /\ \E i \in 1..Len(op.update.removed) : op.update.removed[i] \notin Range(pre.list)
    /\ Len(query.list) > 0 /\ query.list[1] = Hole
    /\ query.list # pre.list

\* C23 as stated: getStoreKeysForObjectsInRange calls the callback before it
\* returns, and returns false, exactly when the length is known and every
\* window of the clamped range is READY, and the keys it passes are then
\* the entries of the list at the indexes of the clamped range, none
\* missing; otherwise it queues the callback, returns true, and each window
\* of the range that is not READY has its ids requested or being loaded.
C23_Original ==
    op.name = "getStoreKeysForObjectsInRange" =>
        LET known == pre.length # NULL
            start == IF known THEN Max(op.start, 0) ELSE op.start
            end == IF known THEN Min(op.end, pre.length) ELSE op.end
            windowsOfRange == { w \in 0..NumIds :
                                  /\ w >= start \div pre.windowSize
                                  /\ w <= (end - 1) \div pre.windowSize }
            complete == /\ known
                        /\ \A w \in windowsOfRange :
                              "READY" \in windowStatus(pre.windows, w)
        IN  IF complete
            THEN /\ op.returned = FALSE
                 /\ Len(op.callback) = 1
                 /\ Len(op.callback[1].keys) = Max(0, end - start)
                 /\ \A j \in 1..Len(op.callback[1].keys) :
                       /\ op.callback[1].keys[j] # Hole
                       /\ op.callback[1].keys[j] = Get(pre.list, start + j - 1)
            ELSE /\ op.returned = TRUE
                 /\ op.callback = <<>>
                 /\ query.awaitingIdFetch =
                       Append(pre.awaitingIdFetch, [start |-> start, end |-> end])
                 /\ \A w \in windowsOfRange :
                       "READY" \notin windowStatus(pre.windows, w) =>
                           windowStatus(query.windows, w)
                               \cap {"REQUESTED", "LOADING"} # {}

\* C23: getStoreKeysForObjectsInRange calls the callback before it returns,
\* and returns false, exactly when the length is known and every window of
\* the clamped range is READY, and the keys it passes are then the entries
\* of the list at the indexes of the clamped range, none missing.
\* Otherwise it queues the callback and returns true; if the length is
\* known, each window of the range that is not READY has its ids requested
\* or being loaded, the fetch is marked explicit, and the source is asked
\* to fetch if a window was EMPTY; if the length is not known, nothing is
\* requested and the query is otherwise as it was.
C23_KeysOfRange ==
    op.name = "getStoreKeysForObjectsInRange" =>
        LET known == pre.length # NULL
            start == IF known THEN Max(op.start, 0) ELSE op.start
            end == IF known THEN Min(op.end, pre.length) ELSE op.end
            windowsOfRange == { w \in 0..NumIds :
                                  /\ w >= start \div pre.windowSize
                                  /\ w <= (end - 1) \div pre.windowSize }
            complete == /\ known
                        /\ \A w \in windowsOfRange :
                              "READY" \in windowStatus(pre.windows, w)
        IN  IF complete
            THEN /\ op.returned = FALSE
                 /\ Len(op.callback) = 1
                 /\ op.callback[1].start = start /\ op.callback[1].end = end
                 /\ Len(op.callback[1].keys) = Max(0, end - start)
                 /\ \A j \in 1..Len(op.callback[1].keys) :
                       /\ op.callback[1].keys[j] # Hole
                       /\ op.callback[1].keys[j] = Get(pre.list, start + j - 1)
                 /\ query = pre
            ELSE /\ op.returned = TRUE
                 /\ op.callback = <<>>
                 /\ query.awaitingIdFetch =
                       Append(pre.awaitingIdFetch, [start |-> start, end |-> end])
                 /\ IF known
                    THEN /\ query.isAnExplicitIdFetch
                         /\ \A w \in windowsOfRange :
                               "READY" \notin windowStatus(pre.windows, w) =>
                                   windowStatus(query.windows, w)
                                       \cap {"REQUESTED", "LOADING"} # {}
                         /\ (\E w \in windowsOfRange :
                                windowStatus(pre.windows, w) = WINDOW_EMPTY)
                                => query.fetchRequested
                    ELSE query = [pre EXCEPT !.awaitingIdFetch = query.awaitingIdFetch]

\* C23 witness: the keys of a range of two indexes are passed to the
\* callback at once while a window of the list outside the range is not
\* READY.
C23_Witness ==
    /\ op.name = "getStoreKeysForObjectsInRange"
    /\ op.returned = FALSE
    /\ Len(op.callback) = 1 /\ Len(op.callback[1].keys) = 2
    /\ \E w \in 0..(windowCount(pre) - 1) :
          "READY" \notin windowStatus(pre.windows, w)

\* C24: indexOfStoreKey returns the first index, from `from` on, at which
\* the list holds the key, or -1. Given a callback: if the key is found
\* the callback gets the index before the call returns; if it is not found
\* and all ids are loaded (the length is known and every window is READY)
\* the callback gets -1 before the call returns; otherwise the callback is
\* not called, one entry for the id of the key is added to the index-of
\* requests and the source is asked to fetch. Nothing else of the query
\* changes.
C24_IndexOfStoreKey ==
    op.name = "indexOfStoreKey" =>
        LET found == { i \in op.from..(Len(pre.list) - 1) :
                         Get(pre.list, i) = op.storeKey }
            index == IF found = {} THEN -1
                     ELSE CHOOSE i \in found : \A j \in found : i <= j
            loaded == /\ pre.length # NULL
                      /\ \A w \in 0..((pre.length - 1) \div pre.windowSize) :
                            "READY" \in windowStatus(pre.windows, w)
        IN  /\ op.returned = index
            /\ IF ~op.given
               THEN op.callback = <<>> /\ query = pre
               ELSE IF index >= 0 \/ loaded
               THEN op.callback = << index >> /\ query = pre
               ELSE /\ op.callback = <<>>
                    /\ Len(query.indexOfRequested) = Len(pre.indexOfRequested) + 1
                    /\ SubSeq(query.indexOfRequested, 1, Len(pre.indexOfRequested))
                          = pre.indexOfRequested
                    /\ toStoreKey(query.indexOfRequested[
                           Len(query.indexOfRequested)].id) = op.storeKey
                    /\ query.fetchRequested
                    /\ query = [ pre EXCEPT
                                   !.indexOfRequested = query.indexOfRequested,
                                   !.fetchRequested = TRUE ]

\* C24 witness: the key is not in the part of the list that is loaded, a
\* window of which is READY and another not; the callback is deferred and
\* the source asked to fetch.
C24_Witness ==
    /\ op.name = "indexOfStoreKey"
    /\ op.given /\ op.returned = -1 /\ op.callback = <<>>
    /\ Len(query.indexOfRequested) = 1
    /\ query.fetchRequested /\ ~pre.fetchRequested
    /\ \E w \in 0..(windowCount(pre) - 1) : "READY" \in windowStatus(pre.windows, w)
    /\ \E w \in 0..(windowCount(pre) - 1) : "READY" \notin windowStatus(pre.windows, w)

\* C25 as stated: in every reachable state, a window whose READY flag is
\* set has every index of its span below the length of the query present
\* in the list, with no gap.
C25_Original ==
    \A w \in 0..(Len(query.windows) - 1) :
        "READY" \in windowStatus(query.windows, w) =>
            \A i \in (w * query.windowSize)..
                      (Min((w + 1) * query.windowSize, Num(query.length)) - 1) :
                Get(query.list, i) # Hole

\* C26 as stated: a delta from the current state whose normalised form is
\* equal to the composition of the first k of the n queued preemptives
\* removes exactly those k from the queue; if the query was DIRTY the other
\* n - k stay queued and the list is unchanged, and if it was not DIRTY the
\* other n - k are undone on the list by their composed inverse and the
\* queue is emptied.
C26_Original ==
    \A k \in 1..Len(pre.preemptives) :
        ReconciledDelta /\ updateIsEqual(NormalisedDelta, ComposedQueue[k]) =>
            LET n    == Len(pre.preemptives)
                rest == SubSeq(pre.preemptives, k + 1, n)
            IN  IF "DIRTY" \in pre.status
                THEN /\ query.preemptives = rest
                     /\ query.list = pre.list
                ELSE /\ query.preemptives = <<>>
                     /\ query.list =
                            IF k = n THEN pre.list
                            ELSE Applied(pre.list,
                                     invertUpdate(reduceCompose(rest, n - k)))

\* The largest k such that the normalised delta of the last call is equal to
\* the composition of the first k queued preemptives, 0 when there is none.
ConfirmedPrefix ==
    LET matches == { k \in 1..Len(ComposedQueue) :
                        updateIsEqual(NormalisedDelta, ComposedQueue[k]) }
    IN  IF matches = {} THEN 0 ELSE CHOOSE k \in matches : \A j \in matches : j <= k

\* C26: a delta from the current state whose normalised form is not empty
\* and is equal to the composition of the first k queued preemptives, k the
\* largest such, removes those k from the queue. If the query was DIRTY the
\* others stay queued, and the list is unchanged when no packet waits for
\* the new state. If it was not DIRTY the queue is emptied and the others
\* are undone on the list by their composed inverse; when there are no
\* others, the list is unchanged unless a packet waits for the new state.
C26_PrefixConfirmation ==
    ReconciledDelta /\ ~IsEmptyUpdate(NormalisedDelta) /\ ConfirmedPrefix > 0 =>
        LET n    == Len(pre.preemptives)
            k    == ConfirmedPrefix
            rest == SubSeq(pre.preemptives, k + 1, n)
        IN  IF "DIRTY" \in pre.status
            THEN /\ query.preemptives = rest
                 /\ pre.waitingPackets = <<>> => query.list = pre.list
            ELSE /\ query.preemptives = <<>>
                 /\ k < n => query.list =
                        Applied(pre.list, invertUpdate(reduceCompose(rest, n - k)))
                 /\ k = n /\ pre.waitingPackets = <<>> => query.list = pre.list

\* C26 witness: the first of two queued preemptives has been confirmed
\* while the query was not DIRTY, and the second has been undone.
C26_Witness ==
    /\ ReconciledDelta /\ ~IsEmptyUpdate(NormalisedDelta)
    /\ Len(pre.preemptives) = 2
    /\ ConfirmedPrefix = 1
    /\ "DIRTY" \notin pre.status
    /\ query.preemptives = <<>>
    /\ query.list # pre.list
    /\ query.list = Applied(pre.list, invertUpdate(pre.preemptives[2]))

\* ------------------------------------------------------------------------
\* Slices of ids fetched while preemptive updates are queued
\* ------------------------------------------------------------------------

\* A query that holds the first or the last window of the list.
InitSlices ==
    /\ server = << InitialIds >>
    /\ query \in { PartlyLoadedQuery, LastWindowLoadedQuery }
    /\ net = {}
    /\ clientUpdates = 0
    /\ refreshes = 0
    /\ reads = 0
    /\ op = [name |-> "init"]
    /\ pre = query

\* The client removes a record it holds or inserts a new one, and the
\* application reads the list, the server's list staying as it is.
NextSlices ==
    \/ \E k \in Range(query.list) \ {Hole} :
          ClientDidGenerateUpdate(
              [removed |-> <<k>>, added |-> <<>>, total |-> NULL, upto |-> Hole])
    \/ \E i \in 0..Len(query.list), id \in FreshIds :
          ClientDidGenerateUpdate(
              [removed |-> <<>>, added |-> << <<i, toStoreKey(id)>> >>,
               total |-> NULL, upto |-> Hole])
    \/ \E index \in 0..(NumIds - 1) : FetchDataForObjectAt(index)
    \/ SourceFetchesQuery
    \/ \E response \in net : SourceDidFetchIdList(response)
    \/ \E response \in net : SourceDidFetchUpdate(response)
    \/ \E response \in net : FetchCallback(response)

SpecSlices == InitSlices /\ [][NextSlices]_vars

\* The last call was sourceDidFetchIdList with a packet of the state the
\* query is at, while preemptive updates were queued.
SliceOverPreemptives ==
    /\ op.name = "sourceDidFetchIdList"
    /\ op.args.sort = pre.sort /\ op.args.filter = pre.filter
    /\ op.args.state = pre.state
    /\ pre.canGetDeltaUpdates
    /\ Len(pre.preemptives) # 0

\* C27: a packet of the query's state received while preemptive updates are
\* queued leaves, at every index it writes and at every index whose store
\* key it changes, the store key of that position in the server's list with
\* the composed preemptives applied, and sets length to the total of the
\* composed preemptives.
C27_SliceOverPreemptives ==
    SliceOverPreemptives =>
        LET allPreemptives == reduceCompose(pre.preemptives, Len(pre.preemptives))
            expected == Applied(KeysOf(ServerList(op.args.state)), allPreemptives)
            added(afterRemoved) ==
                adjustForAdded(afterRemoved[1], afterRemoved[2], afterRemoved[3],
                    allPreemptives.addedIndexes, allPreemptives.addedStoreKeys, 0)
            written(slice) == slice[2]..(slice[2] + slice[3] - 1)
            indexes ==
                written(added(adjustForRemoved(KeysOf(op.args.idList),
                    op.args.position, Len(op.args.idList),
                    allPreemptives.removedIndexes,
                    Len(allPreemptives.removedIndexes))))
        IN  /\ \A i \in indexes : Get(query.list, i) = Get(expected, i)
            /\ \A i \in 0..(Len(query.list) - 1) :
                   Get(query.list, i) # Get(pre.list, i) =>
                       Get(query.list, i) = Get(expected, i)
            /\ query.length = allPreemptives.total

\* C27 witness: the client has removed the first record and inserted a new
\* one at the head of the list; the packet of the last window, sent for
\* index 2, is written at index 2 all the same.
C27_Witness ==
    /\ SliceOverPreemptives
    /\ Len(pre.preemptives) = 2
    /\ pre.list = << 14, 12 >>
    /\ op.args.position = 2
    /\ op.args.idList = << 3 >>
    /\ query.list = << 14, 12, 13 >>
    /\ query.length = 3

\* ------------------------------------------------------------------------
\* Chains of three updates
\* ------------------------------------------------------------------------

\* Number of updates applied in a chain that is composed as a whole.
MaxComposed == 3

\* An update is applied to the list and joins the chain, up to MaxComposed
\* updates, as the preemptive updates of a query do before the source has
\* answered (clientDidGenerateUpdate).
ApplyChained(update) ==
    /\ Len(query.preemptives) < MaxComposed
    /\ query' = [_applyUpdate(Entered, update) EXCEPT !.preemptives = Append(@, update)]
    /\ op' = [name |-> "_applyUpdate", update |-> update, base |-> op.base]
    /\ pre' = Entered
    /\ UNCHANGED << server, net, clientUpdates, refreshes, reads >>

\* The updates of a chain remove one index at most and add one at most.
NextChained ==
    \E update \in { u \in ValidUpdates(query.list) :
                      Len(u.removedIndexes) <= 1 /\ Len(u.addedIndexes) <= 1 } :
        ApplyChained(update)

SpecChained == InitAlgebra /\ [][NextChained]_vars

\* C28: for a list L and three updates p1, p2, p3, each valid on the result
\* of the one before, composeUpdates(composeUpdates(p1, p2), p3), which is
\* what the third composition of the queue [p1, p2, p3] is, applied to L
\* gives the list that p1, p2 and p3 applied in turn give.
C28_TripleComposition ==
    Len(query.preemptives) = 3 =>
        /\ Applied(op.base,
               composeUpdates(
                   composeUpdates(query.preemptives[1], query.preemptives[2]),
                   query.preemptives[3]))
             = AppliedAll(op.base, query.preemptives, 3)
        /\ Applied(op.base, composedPreemptives(query.preemptives)[3])
             = AppliedAll(op.base, query.preemptives, 3)
        /\ AppliedAll(op.base, query.preemptives, 3) = query.list

\* C28 witness: the first update has added a store key, the second has
\* changed the list, and the third removes that store key at the index
\* the composition of the first two adds it at.
C28_Witness ==
    /\ Len(query.preemptives) = 3
    /\ Len(op.base) = 3
    /\ Len(query.preemptives[1].addedStoreKeys) = 1
    /\ Len(query.preemptives[2].removedIndexes) # 0
    /\ Len(query.preemptives[2].addedIndexes) # 0
    /\ query.preemptives[3].removedStoreKeys = query.preemptives[1].addedStoreKeys
    /\ query.preemptives[3].removedIndexes =
          composeUpdates(query.preemptives[1], query.preemptives[2]).addedIndexes
    /\ query.preemptives[3].removedIndexes = query.preemptives[1].addedIndexes
    /\ query.list = Applied(op.base, composedPreemptives(query.preemptives)[3])

\* The windows whose ids a packet of ids that is still in flight holds: the
\* request for them was issued by sourceWillFetchQuery and its callback has
\* not run.
WindowsInFlight ==
    { w \in 0..(Len(query.windows) - 1) :
        \E response \in net : \E k \in 1..Len(response) :
            /\ response[k].call = "sourceDidFetchIdList"
            /\ response[k].args.position <= w * query.windowSize
            /\ w * query.windowSize
                   < response[k].args.position + Len(response[k].args.idList) }

\* C29 as stated: from the request for the ids of a window being issued by
\* sourceWillFetchQuery to the callback of that request, the window keeps
\* its LOADING flag and fetchWindow does not request its ids again, also
\* when the callback of another request runs in between: a window that was
\* LOADING before a callback and whose ids are still in flight after it is
\* still LOADING, and fetchWindow leaves its status as it is.
C29_Original ==
    op.name = "callback" =>
        \A w \in WindowsInFlight :
            "LOADING" \in windowStatus(pre.windows, w) =>
                /\ "LOADING" \in windowStatus(query.windows, w)
                /\ windowStatus(fetchWindow(query, w, FALSE, 0).windows, w)
                       = windowStatus(query.windows, w)

\* ------------------------------------------------------------------------
\* The query that optimises its fetching: requests of windows no range
\* observer needs any more are dropped by sourceWillFetchQuery
\* ------------------------------------------------------------------------

\* A new query with optimiseFetching set, with or without delta updates,
\* with windows of one or two indexes, which the application has asked to
\* be fetched. The range observers
\* registered on it: none, one on the first window, or one on the last
\* index of the list.
InitOptimised ==
    /\ server = << InitialIds >>
    /\ \E n \in 0..1, size \in 1..NewQuery.windowSize, deltas \in BOOLEAN,
          ranges \in { <<>>,
                       << [start |-> 0, end |-> NewQuery.windowSize] >>,
                       << [start |-> Len(InitialIds) - 1,
                           end |-> Len(InitialIds)] >> } :
          query = refresh([NewQuery EXCEPT !.prefetch = n,
                                           !.triggerPoint = n,
                                           !.windowSize = size,
                                           !.optimiseFetching = TRUE,
                                           !.canGetDeltaUpdates = deltas,
                                           !.rangeObservers = ranges], FALSE)
    /\ net = {}
    /\ clientUpdates = 0
    /\ refreshes = 0
    /\ reads = 0
    /\ op = [name |-> "init"]
    /\ pre = query

\* The application reads the object at an index of the list, or asks for
\* the store keys of a range, any number of times up to MaxLookups, or
\* refreshes the query; the source sends the requests and the responses
\* reach the query.
NextOptimised ==
    \/ \E index \in 0..(NumIds - 1) :
          /\ query.length # NULL
          /\ index < query.length
          /\ reads < MaxLookups
          /\ query' = fetchDataForObjectAt(Entered, index)
          /\ reads' = reads + 1
          /\ op' = [name |-> "fetchDataForObjectAt", index |-> index]
          /\ pre' = Entered
          /\ UNCHANGED << server, net, clientUpdates, refreshes >>
    \/ \E start \in 0..(NumIds - 1), end \in 1..NumIds :
          /\ start < end
          /\ reads < MaxLookups
          /\ LET r == getStoreKeysForObjectsInRange(Entered, start, end)
             IN  /\ query' = r.query
                 /\ op' = [ name |-> "getStoreKeysForObjectsInRange",
                            start |-> start, end |-> end,
                            returned |-> r.returned, callback |-> r.callback ]
          /\ reads' = reads + 1
          /\ pre' = Entered
          /\ UNCHANGED << server, net, clientUpdates, refreshes >>
    \/ Refresh
    \/ SourceFetchesQuery
    \/ \E response \in net : SourceDidFetchIdList(response)
    \/ \E response \in net : SourceDidFetchUpdate(response)
    \/ \E response \in net : FetchCallback(response)

SpecOptimised == InitOptimised /\ [][NextOptimised]_vars

\* The window w of q is needed by no range observer of q, the prefetch
\* margin added on both sides of the observed range.
C30_NoObserverNeeds(q, w) ==
    \A j \in 1..Len(q.rangeObservers) :
        ~intersect(w * q.windowSize, (w + 1) * q.windowSize,
                   q.rangeObservers[j].start - q.prefetch * q.windowSize,
                   q.rangeObservers[j].end + q.prefetch * q.windowSize)

\* A range of the ranges given holds the first index of the window w of q.
C30_Covers(ranges, q, w) ==
    \E k \in 1..Len(ranges) :
        /\ ranges[k].start <= w * q.windowSize
        /\ w * q.windowSize < ranges[k].start + ranges[k].count

C31_SetByCall(w) ==
    (windowStatus(query.windows, w) \ windowStatus(pre.windows, w))
        \cap {"LOADING", "RECORDS_LOADING"}

\* C31 as stated: after sourceWillFetchQuery no window is flagged REQUESTED
\* or RECORDS_REQUESTED; the windows of the ranges of ids and of records
\* returned are LOADING, and are the only windows on which the call has
\* set LOADING (for the ranges of records: exactly those on which it has
\* set RECORDS_LOADING); a window of no range has lost its flags of request
\* and gained no flag.
C31_Original ==
    op.name = "sourceWillFetchQuery" =>
        \A w \in 0..(Len(pre.windows) - 1) :
            LET ids     == C30_Covers(sourceWillFetchQuery(pre)[2].ids, pre, w)
                records == C30_Covers(sourceWillFetchQuery(pre)[2].records, pre, w)
                before  == windowStatus(pre.windows, w)
                after   == windowStatus(query.windows, w)
            IN  /\ after \cap {"REQUESTED", "RECORDS_REQUESTED"} = {}
                /\ (ids \/ records) => "LOADING" \in after
                /\ "LOADING" \in C31_SetByCall(w) => (ids \/ records)
                /\ records <=> ("RECORDS_LOADING" \in C31_SetByCall(w))
                /\ ~(ids \/ records) =>
                       after = before \ {"REQUESTED", "RECORDS_REQUESTED"}

\* C31: after sourceWillFetchQuery no window is flagged REQUESTED or
\* RECORDS_REQUESTED, and the windows of the ranges of records are exactly
\* those on which the call has set RECORDS_LOADING. When the call is for a
\* refresh of a query without delta updates, a window without a flag of
\* request that a range observer needs is in a range of ids and in no range
\* of records, and keeps its flags as they were. For every other window:
\* if it is in a range of ids or of records it is LOADING, the call has
\* set LOADING only on windows of a range, and if it is in no range it has
\* lost its flags of request and gained no flag.
C31_RequestsIssued ==
    op.name = "sourceWillFetchQuery" =>
        \A w \in 0..(Len(pre.windows) - 1) :
            LET ids      == C30_Covers(sourceWillFetchQuery(pre)[2].ids, pre, w)
                records  == C30_Covers(sourceWillFetchQuery(pre)[2].records, pre, w)
                before   == windowStatus(pre.windows, w)
                after    == windowStatus(query.windows, w)
                observed == /\ pre.refresh
                            /\ ~pre.canGetDeltaUpdates
                            /\ before \cap {"REQUESTED", "RECORDS_REQUESTED"} = {}
                            /\ ~C30_NoObserverNeeds(pre, w)
            IN  /\ after \cap {"REQUESTED", "RECORDS_REQUESTED"} = {}
                /\ records <=> ("RECORDS_LOADING" \in C31_SetByCall(w))
                /\ IF observed
                   THEN ids /\ ~records /\ after = before
                   ELSE /\ (ids \/ records) => "LOADING" \in after
                        /\ "LOADING" \in C31_SetByCall(w) => (ids \/ records)
                        /\ ~(ids \/ records) =>
                               after = before \ {"REQUESTED", "RECORDS_REQUESTED"}

\* C31 witness: sourceWillFetchQuery has returned a range and has left a
\* window that was flagged REQUESTED or RECORDS_REQUESTED out of every
\* range: the window has no flag of request or of loading.
C31_Witness ==
    /\ op.name = "sourceWillFetchQuery"
    /\ sourceWillFetchQuery(pre)[2].records \o sourceWillFetchQuery(pre)[2].ids # <<>>
    /\ \E w \in 0..(Len(pre.windows) - 1) :
          /\ windowStatus(pre.windows, w)
                \cap {"REQUESTED", "RECORDS_REQUESTED"} # {}
          /\ ~C30_Covers(sourceWillFetchQuery(pre)[2].ids, pre, w)
          /\ ~C30_Covers(sourceWillFetchQuery(pre)[2].records, pre, w)
          /\ windowStatus(query.windows, w)
                \cap {"REQUESTED", "RECORDS_REQUESTED",
                      "LOADING", "RECORDS_LOADING"} = {}

\* The ranges of a list of the request descriptor are made of whole
\* windows of q, in ascending order, and none starts at or before the end
\* of the one before it.
C32_Coalesced(ranges, q) ==
    /\ \A k \in 1..Len(ranges) :
          /\ ranges[k].start % q.windowSize = 0
          /\ ranges[k].count % q.windowSize = 0
          /\ ranges[k].count > 0
    /\ \A k \in 1..(Len(ranges) - 1) :
          ranges[k].start + ranges[k].count < ranges[k + 1].start

\* C32: in the descriptor returned by sourceWillFetchQuery the ranges of
\* ids, and those of records, are made of whole windows, in ascending
\* order, disjoint, and no range starts where the one before it ends: a
\* run of adjacent windows fetched is one range.
C32_RangesCoalesced ==
    op.name = "sourceWillFetchQuery" =>
        /\ C32_Coalesced(sourceWillFetchQuery(pre)[2].ids, pre)
        /\ C32_Coalesced(sourceWillFetchQuery(pre)[2].records, pre)

\* C32 witness: sourceWillFetchQuery has returned a range of two adjacent
\* windows.
C32_Witness ==
    /\ op.name = "sourceWillFetchQuery"
    /\ \E k \in 1..Len(sourceWillFetchQuery(pre)[2].ids \o
                       sourceWillFetchQuery(pre)[2].records) :
          (sourceWillFetchQuery(pre)[2].ids \o
              sourceWillFetchQuery(pre)[2].records)[k].count
                  > pre.windowSize
    /\ \E w \in 0..(Len(pre.windows) - 1) :
          /\ "LOADING" \in windowStatus(query.windows, w)
          /\ "LOADING" \in windowStatus(query.windows, w + 1)

\* C33: the callback of the request descriptor clears LOADING and
\* RECORDS_LOADING on every window and LOADING in the status of the query;
\* the other flags of every window, the number of windows, the other flags
\* of the status, the list, its length and the state are as they were.
C33_CallbackClearsLoading ==
    op.name = "callback" =>
        /\ Len(query.windows) = Len(pre.windows)
        /\ \A w \in 0..(Len(pre.windows) - 1) :
              windowStatus(query.windows, w) =
                  windowStatus(pre.windows, w) \ {"LOADING", "RECORDS_LOADING"}
        /\ query.status = pre.status \ {"LOADING"}
        /\ query.list = pre.list
        /\ query.length = pre.length
        /\ query.state = pre.state

\* C33 witness: the callback has been called on a query that was LOADING,
\* with a window flagged READY, LOADING and RECORDS_LOADING and another
\* flagged REQUESTED: the first is READY alone, the second still REQUESTED.
C33_Witness ==
    /\ op.name = "callback"
    /\ "LOADING" \in pre.status
    /\ "LOADING" \notin query.status
    /\ \E w \in 0..(Len(pre.windows) - 1) :
          /\ {"READY", "LOADING", "RECORDS_LOADING"} \subseteq windowStatus(pre.windows, w)
          /\ windowStatus(query.windows, w) = {"READY"}
    /\ \E w \in 0..(Len(pre.windows) - 1) :
          /\ "REQUESTED" \in windowStatus(pre.windows, w)
          /\ "REQUESTED" \in windowStatus(query.windows, w)

\* The window w is one of those fetchWindow goes over: from index - prefetch
\* to index + prefetch, below the number of windows of the list.
C34_InRange(w) ==
    LET prefetch == IF op.prefetch = NULL THEN pre.prefetch ELSE op.prefetch
    IN  /\ op.index - prefetch <= w
        /\ w <= op.index + prefetch
        /\ w < Num(windowCount(pre))

\* What fetchWindow does to the flags of the windows: a window out of its
\* range keeps its flags; in the range a window that was EMPTY is REQUESTED
\* and no other window gains or loses REQUESTED; RECORDS_REQUESTED is
\* gained by the window index alone, when fetchRecords is set and the
\* window had no flag of records.
C34_Flags ==
    \A w \in 0..(Max(Len(pre.windows), Len(query.windows)) - 1) :
        LET before == windowStatus(pre.windows, w)
            after  == windowStatus(query.windows, w)
        IN  IF ~C34_InRange(w) THEN after = before
            ELSE /\ before = WINDOW_EMPTY => "REQUESTED" \in after
                 /\ before # WINDOW_EMPTY =>
                       ("REQUESTED" \in after <=> "REQUESTED" \in before)
                 /\ "RECORDS_REQUESTED" \in after \ before =>
                       /\ w = op.index
                       /\ op.fetchRecords
                       /\ BelowRecordsRequested(before)
                 /\ "RECORDS_REQUESTED" \in before => "RECORDS_REQUESTED" \in after

\* fetchWindow has set REQUESTED or RECORDS_REQUESTED on a window.
C34_NewlyRequested ==
    \E w \in 0..(Len(query.windows) - 1) :
        (windowStatus(query.windows, w) \ windowStatus(pre.windows, w))
            \cap {"REQUESTED", "RECORDS_REQUESTED"} # {}

\* C34 as stated: fetchWindow changes the flags of the windows as C34_Flags
\* says, and asks the source to fetch exactly when it has set a flag of
\* request.
C34_Original ==
    op.name = "fetchWindow" =>
        /\ C34_Flags
        /\ ~pre.fetchRequested => (query.fetchRequested <=> C34_NewlyRequested)

\* C34: fetchWindow changes the flags of the windows as C34_Flags says. If
\* the query is not OBSOLETE it asks the source to fetch exactly when it
\* has set a flag of request; if the query is OBSOLETE it refreshes the
\* query first, and the source is asked to fetch whether or not a flag is
\* set.
C34_FetchWindowFrame ==
    op.name = "fetchWindow" =>
        /\ C34_Flags
        /\ ~pre.fetchRequested =>
              (query.fetchRequested <=>
                  (C34_NewlyRequested \/ "OBSOLETE" \in pre.status))
        /\ pre.fetchRequested => query.fetchRequested

\* C34 witness: fetchWindow with fetchRecords has found an EMPTY window
\* next to the window index, which is READY: the first is REQUESTED, the
\* second has gained RECORDS_REQUESTED, and the source is asked to fetch.
C34_Witness ==
    /\ op.name = "fetchWindow"
    /\ op.fetchRecords
    /\ ~pre.fetchRequested
    /\ query.fetchRequested
    /\ "READY" \in windowStatus(pre.windows, op.index)
    /\ "RECORDS_REQUESTED" \in windowStatus(query.windows, op.index)
    /\ \E w \in 0..(Len(query.windows) - 1) :
          /\ w # op.index
          /\ windowStatus(pre.windows, w) = WINDOW_EMPTY
          /\ windowStatus(query.windows, w) = {"REQUESTED"}

\* C35 as stated: fetchWindow, called by fetchDataForObjectAt, flags a
\* window RECORDS_READY only if the window was READY and every record of
\* the window, at the indexes of the window below the length of the list,
\* is in memory; the window of the index read, if it had no flag of records
\* and one of its records is not in memory, is flagged RECORDS_REQUESTED.
C35_Original ==
    op.name = "fetchDataForObjectAt" =>
        \A w \in 0..(Len(query.windows) - 1) :
            LET before  == windowStatus(pre.windows, w)
                after   == windowStatus(query.windows, w)
                span    == (w * pre.windowSize)..
                           (Min((w + 1) * pre.windowSize, Num(pre.length)) - 1)
                missing == \E i \in span : recordIsMissing(pre, Get(pre.list, i))
            IN  /\ "RECORDS_READY" \in after \ before =>
                      ("READY" \in before /\ ~missing)
                /\ ( w = op.index \div pre.windowSize
                     /\ BelowRecordsRequested(before)
                     /\ missing ) => "RECORDS_REQUESTED" \in after

\* ------------------------------------------------------------------------
\* recalculateFetchedWindows and _normaliseUpdate on lists with gaps: the
\* methods are called once on a query whose list is any list shorter than
\* MaxListLength, with any arguments; _applyUpdate follows _normaliseUpdate
\* when the list has no gap.
\* ------------------------------------------------------------------------

\* Number of windows of the window table recalculateFetchedWindows is
\* called with.
MaxWindows == 3

\* A query that holds a list with or without gaps, of known length, with
\* the windows that hold no gap READY.
InitOperations ==
    /\ server = << InitialIds >>
    /\ \E list \in { l \in SparseLists : Len(l) < MaxListLength
                                           /\ (Len(l) # 0 => l[Len(l)] # Hole) } :
          query = recalculateFetchedWindows(
                      [ NewQuery EXCEPT !.list = list, !.length = Len(list),
                                        !.state = 1, !.status = {"READY"} ],
                      0, NULL)
    /\ net = {}
    /\ clientUpdates = 0
    /\ refreshes = 0
    /\ reads = 0
    /\ op = [name |-> "init"]
    /\ pre = query

NextOperations ==
    \/ /\ op.name = "init"
       /\ \E windows \in SeqsUpTo({ WINDOW_EMPTY, {"READY", "RECORDS_READY"},
                                    {"LOADING", "RECORDS_REQUESTED"} }, MaxWindows),
             start \in {NULL} \cup (0..MaxListLength),
             length \in {NULL} \cup (0..MaxListLength) :
             /\ query' = recalculateFetchedWindows(
                             [Entered EXCEPT !.windows = windows], start, length)
             /\ op' = [ name |-> "recalculateFetchedWindows",
                        start |-> start, length |-> length ]
             /\ pre' = [Entered EXCEPT !.windows = windows]
       /\ UNCHANGED << server, net, clientUpdates, refreshes, reads >>
    \/ /\ op.name = "init"
       /\ \E removed \in UNION { DistinctSeqs(StoreKeys, n) : n \in 0..MaxChanged },
             indexes \in AscendingSeqs(0..(MaxListLength - 1), MaxChanged) :
             \E keys \in DistinctSeqs(StoreKeys, Len(indexes)) :
                LET update == [ removed |-> removed,
                                added |-> [i \in 1..Len(indexes) |->
                                              << indexes[i], keys[i] >>],
                                total |-> NULL, upto |-> Hole ]
                IN  op' = [ name |-> "_normaliseUpdate", update |-> update,
                            normalised |-> _normaliseUpdate(Entered, update) ]
       /\ pre' = Entered
       /\ UNCHANGED << query, server, net, clientUpdates, refreshes, reads >>
    \/ /\ op.name = "_normaliseUpdate"
       /\ \A i \in 1..Len(query.list) : query.list[i] # Hole
       /\ query' = _applyUpdate(Entered, op.normalised)
       /\ op' = [op EXCEPT !.name = "_applyUpdate"]
       /\ pre' = Entered
       /\ UNCHANGED << server, net, clientUpdates, refreshes, reads >>

SpecOperations == InitOperations /\ [][NextOperations]_vars

\* The window of the index start given to recalculateFetchedWindows.
C36_First == Num(op.start) \div pre.windowSize

\* The last window of the length given to recalculateFetchedWindows, or of
\* the length of the query when none is given; -1 when the length is 0.
C36_Last ==
    ((IF op.length = NULL THEN Num(pre.length) ELSE op.length) - 1)
        \div pre.windowSize

\* The window w from C36_First to C36_Last is recalculated: it has lost
\* RECORDS_READY, is READY exactly when the list holds a key at every index
\* of the window below the length, and has kept its other flags.
C36_IsRecalculated(w) ==
    LET length == IF op.length = NULL THEN Num(pre.length) ELSE op.length
        before == windowStatus(pre.windows, w)
        after  == windowStatus(query.windows, w)
    IN  /\ "RECORDS_READY" \notin after
        /\ "READY" \in after <=>
              \A i \in (w * pre.windowSize)..
                       (Min((w + 1) * pre.windowSize, length) - 1) :
                  Get(pre.list, i) # Hole
        /\ after \ {"READY"} = before \ {"READY", "RECORDS_READY"}

C37_CanonicalShape ==
    op.name = "_normaliseUpdate" =>
        LET n       == op.normalised
            unknown == { i \in 1..Len(op.update.removed) :
                            \A j \in 1..Len(pre.list) :
                                pre.list[j] # op.update.removed[i] }
        IN  /\ Len(n.removedIndexes) = Len(n.removedStoreKeys)
            /\ Len(n.addedIndexes) = Len(n.addedStoreKeys)
            /\ \A i \in 1..Len(n.removedIndexes) :
                  /\ n.removedIndexes[i] >= 0
                  /\ i > 1 => n.removedIndexes[i - 1] < n.removedIndexes[i]
                  /\ n.removedStoreKeys[i] # Hole
                  /\ n.removedStoreKeys[i] = Get(pre.list, n.removedIndexes[i])
                  /\ \E k \in 1..Len(op.update.removed) :
                        op.update.removed[k] = n.removedStoreKeys[i]
            /\ \A i \in unknown :
                  \A k \in 1..Len(n.removedStoreKeys) :
                      n.removedStoreKeys[k] # op.update.removed[i]
            /\ n.truncateAtFirstGap <=> (unknown # {})
            /\ n.total = pre.length - Len(n.removedIndexes) + Len(n.addedIndexes)

\* C37 witness: _normaliseUpdate has been given a key to remove that the
\* list holds and one that it does not, with a key to add: the update
\* returned removes one key and adds one, truncateAtFirstGap is set and
\* total is the length of the list.
C37_Witness ==
    /\ op.name = "_normaliseUpdate"
    /\ Len(op.update.removed) = MaxChanged
    /\ Len(op.normalised.removedIndexes) = 1
    /\ op.normalised.truncateAtFirstGap
    /\ Len(op.normalised.addedIndexes) = 1
    /\ op.normalised.total = pre.length

\* The list without the keys of removed.
C38_Without(list, removed) ==
    LET kept == { i \in 1..Len(list) :
                     \A k \in 1..Len(removed) : removed[k] # list[i] }
        RECURSIVE pick(_)
        pick(i) == IF i > Len(list) THEN <<>>
                   ELSE (IF i \in kept THEN << list[i] >> ELSE <<>>) \o pick(i + 1)
    IN  pick(1)

\* The list with the pairs of added, from pair i on, inserted one after the
\* other, each at its index.
RECURSIVE C38_Inserted(_, _, _)
C38_Inserted(list, added, i) ==
    IF i > Len(added) THEN list
    ELSE C38_Inserted(SubSeq(list, 1, added[i][1]) \o << added[i][2] >>
                         \o SubSeq(list, added[i][1] + 1, Len(list)),
                      added, i + 1)

\* Every pair of added has an index of the list it is inserted in.
C38_Insertable(list, removed, added) ==
    \A i \in 1..Len(added) :
        added[i][1] <= Len(C38_Without(list, removed)) + i - 1

\* C38: on a list without gaps, the update that _normaliseUpdate makes of
\* the keys to remove and the pairs to add (in ascending order of index,
\* each index being one of the list it is inserted in), once applied by
\* _applyUpdate, gives the list without the keys to remove, with the
\* pairs inserted one after the other; the length of the query is that of
\* this list.
C38_NormalisedMeaning ==
    ( op.name = "_applyUpdate"
      /\ C38_Insertable(pre.list, op.update.removed, op.update.added) ) =>
        /\ query.list =
              C38_Inserted(C38_Without(pre.list, op.update.removed),
                           op.update.added, 1)
        /\ query.length = Len(query.list)

\* C38 witness: an update that removes two keys and adds one of them where
\* it stood and the other elsewhere has been normalised and applied: the
\* normalised update removes one key only, and adds it.
C38_Witness ==
    /\ op.name = "_applyUpdate"
    /\ C38_Insertable(pre.list, op.update.removed, op.update.added)
    /\ Len(op.update.removed) = MaxChanged
    /\ Len(op.update.added) = MaxChanged
    /\ \A i \in 1..MaxChanged :
          \E k \in 1..MaxChanged : op.update.added[i][2] = op.update.removed[k]
    /\ Len(op.normalised.removedIndexes) = 1
    /\ Len(op.normalised.addedIndexes) = 1
    /\ query.list # pre.list

\* ------------------------------------------------------------------------
\* Ordering and pairing of the indexes of a reported update
\* ------------------------------------------------------------------------

\* The indexes of a sequence are in strictly ascending order.
C39_Ascending(indexes) ==
    \A i \in 1..(Len(indexes) - 1) : indexes[i] < indexes[i + 1]

\* The removed half of an event pairs each index with the key that stood
\* there in the list before; the added half pairs each index with the key
\* that stands there in the list after.
C39_Paired(event, before, after) ==
    /\ Len(event.removed) = Len(event.removedIndexes)
    /\ Len(event.added) = Len(event.addedIndexes)
    /\ \A i \in 1..Len(event.removedIndexes) :
           Get(before, event.removedIndexes[i]) = event.removed[i]
    /\ \A i \in 1..Len(event.addedIndexes) :
           Get(after, event.addedIndexes[i]) = event.added[i]

\* The last call was clientDidGenerateUpdate or sourceDidFetchUpdate.
C39_UpdateCall == op.name \in { "clientDidGenerateUpdate", "sourceDidFetchUpdate" }

\* The call reported one update and no waiting packet was applied after it,
\* so the list before the update is the list before the call and the list
\* after the update is the list after the call.
C39_OneUpdate ==
    /\ C39_UpdateCall
    /\ Cardinality(UpdatedEvents) = 1
    /\ Len(pre.waitingPackets) = 0

\* C39 as stated: every query:updated event of a call of
\* clientDidGenerateUpdate or sourceDidFetchUpdate has its removed indexes
\* and its added indexes in ascending order, and when the call reported one
\* update, its removed keys are the keys that stood at the removed indexes
\* before the call and its added keys stand at the added indexes after it.
C39_Original ==
    C39_UpdateCall =>
        /\ \A i \in UpdatedEvents :
               /\ C39_Ascending(query.events[i].removedIndexes)
               /\ C39_Ascending(query.events[i].addedIndexes)
        /\ \A i \in UpdatedEvents :
               C39_OneUpdate => C39_Paired(query.events[i], pre.list, query.list)

\* The pairing of C39_Paired wherever the list holds a key: a position the
\* list has not loaded (a hole, or one beyond its end) pairs with any key.
C39_PairedWhereLoaded(event, before, after) ==
    /\ Len(event.removed) = Len(event.removedIndexes)
    /\ Len(event.added) = Len(event.addedIndexes)
    /\ \A i \in 1..Len(event.removedIndexes) :
           Get(before, event.removedIndexes[i]) \in { Hole, event.removed[i] }
    /\ \A i \in 1..Len(event.addedIndexes) :
           Get(after, event.addedIndexes[i]) \in { Hole, event.added[i] }

\* C39, for the positions the list has loaded: when a call of
\* clientDidGenerateUpdate or sourceDidFetchUpdate reported one update, each
\* removed key of the event is the key the list held at its removed index
\* before the call, and each added key is the key the list holds at its
\* added index after it.
C39_LoadedPairs ==
    \A i \in UpdatedEvents :
        C39_OneUpdate => C39_PairedWhereLoaded(query.events[i], pre.list, query.list)

\* C39, the order alone: every query:updated event of a call of
\* clientDidGenerateUpdate or sourceDidFetchUpdate has its removed indexes
\* and its added indexes in ascending order.
C39_AscendingIndexes ==
    C39_UpdateCall =>
        \A i \in UpdatedEvents :
            /\ C39_Ascending(query.events[i].removedIndexes)
            /\ C39_Ascending(query.events[i].addedIndexes)

\* The reconciliation of sourceDidFetchUpdate has reported a removal with a
\* key other than the one the list held at the removed index.
C39_Mispaired ==
    /\ ReconciledDelta
    /\ C39_OneUpdate
    /\ \E i \in UpdatedEvents :
           \E j \in 1..Len(query.events[i].removedIndexes) :
               Get(pre.list, query.events[i].removedIndexes[j])
                   \notin { Hole, query.events[i].removed[j] }

========================================================================
